---- MODULE Spec2Model ----
(***************************************************************************)
(* State-machine model of hooks/log-lightweight.py: the session logging    *)
(* hook that is run once per lifecycle event, reads the persisted session  *)
(* state, updates it from the event payload and the transcript, writes it  *)
(* back and (for most events) rewrites the session's snapshot file.         *)
(*                                                                         *)
(* Time is counted in clock ticks (the resolution of a transcript          *)
(* timestamp).  A Python dict is a record carrying the set of its present  *)
(* keys in the field "keys"; an optional value (None or a value) is a      *)
(* sequence of length 0 or 1; a text is a sequence of characters.           *)
(***************************************************************************)
EXTENDS Integers, Sequences, FiniteSets, TLC

\* ------------------------------------------------------------------ bounds
MaxTime == 2
TicksPerMinute == 2
MaxTimeline == 2
MaxLines == 2
MaxLinesAll == 1
MaxLogLines == 1
MaxCount == 2
MaxScanLines == 3
MaxInvocations == 2

\* ------------------------------------------------------- program constants
CONTEXT_LIMIT == 200000
PRICE_INPUT == 300
PRICE_OUTPUT == 1500
PRICE_CACHE_READ == 30
PRICE_CACHE_CREATION == 375

DEFAULT_TOOLS_TO_LOG ==
    {"Edit", "MultiEdit", "Write", "NotebookEdit", "Skill", "Task", "AskUserQuestion"}

\* The local UTC offset of the machine, in ticks (a whole number of minutes).
TzOffset == TicksPerMinute

\* ------------------------------------------------------------- small helpers
Some(x) == << x >>
None == << >>
IsSome(o) == Len(o) > 0
Val(o) == o[1]

Max(a, b) == IF a >= b THEN a ELSE b

Range(s) == { s[i] : i \in 1..Len(s) }

IsPrefix(s, t) == Len(s) <= Len(t) /\ SubSeq(t, 1, Len(s)) = s

RECURSIVE Strip(_)
\* str.strip(): leading and trailing blanks removed.
Strip(t) ==
    IF t = << >> THEN t
    ELSE IF Head(t) = " " THEN Strip(Tail(t))
    ELSE IF t[Len(t)] = " " THEN Strip(SubSeq(t, 1, Len(t) - 1))
    ELSE t

RECURSIVE Join(_)
\* " ".join(texts)
Join(texts) ==
    IF texts = << >> THEN << >>
    ELSE IF Len(texts) = 1 THEN texts[1]
    ELSE texts[1] \o << " " >> \o Join(Tail(texts))

Ellipsis == << ".", ".", "." >>

\* truncate(text, max_len)
truncate(text, max_len) ==
    IF text = << >> \/ Len(text) <= max_len THEN text
    ELSE SubSeq(text, 1, max_len) \o Ellipsis

\* get_filename(path): the last component of a path (a sequence of components).
get_filename(path) == IF path = << >> THEN "" ELSE path[Len(path)]

\* format_timestamp(iso_time): "%m-%d %H:%M", the minute of a local time.
format_timestamp(t) == t \div TicksPerMinute

\* datetime.datetime.now().isoformat(): the naive local time at clock tick utc.
LocalNow(utc) == utc + TzOffset

\* calculate_duration(start_time, end_time)
calculate_duration(start_time, end_time) == end_time - start_time

\* ------------------------------------------------------------- transcript
(***************************************************************************)
(* A transcript is a sequence of lines.  A line is either unparsable text  *)
(* (kind "garbage": json.loads raises JSONDecodeError) or an entry of the   *)
(* transcript format: a timestamp, a role, content blocks, an optional      *)
(* usage object and an optional model.                                      *)
(***************************************************************************)
NoUsage == [input_tokens |-> 0, output_tokens |-> 0,
            cache_read_input_tokens |-> 0, cache_creation_input_tokens |-> 0]

Block(type, text) == [type |-> type, text |-> text]

Line(kind, ts, role, content, usage, model) ==
    [kind |-> kind, ts |-> ts, role |-> role, content |-> content,
     usage |-> usage, model |-> model]

\* An assistant message with two text blocks, a usage object and a model.
TextLine ==
    Line("entry", 0, "assistant",
         << Block("text", << "H", "i", " " >>), Block("text", << "y", "o" >>) >>,
         Some([input_tokens |-> 2, output_tokens |-> 1,
               cache_read_input_tokens |-> 1, cache_creation_input_tokens |-> 1]),
         Some("m1"))

\* An assistant tool call: no text block, a usage object with input_tokens = 0.
ToolCallLine ==
    Line("entry", 0, "assistant", << Block("tool_use", << >>) >>,
         Some([input_tokens |-> 0, output_tokens |-> 1,
               cache_read_input_tokens |-> 1, cache_creation_input_tokens |-> 0]),
         None)

\* An assistant message with the two text blocks "Hello " and "world".
HelloLine ==
    Line("entry", 0, "assistant",
         << Block("text", << "H", "e", "l", "l", "o", " " >>),
            Block("text", << "w", "o", "r", "l", "d" >>) >>,
         Some([input_tokens |-> 2, output_tokens |-> 1,
               cache_read_input_tokens |-> 1, cache_creation_input_tokens |-> 1]),
         Some("m1"))

\* An assistant message with the one text block " Hello".
WordLine ==
    Line("entry", 0, "assistant", << Block("text", << " ", "H", "e", "l", "l", "o" >>) >>,
         None, None)

\* An assistant message with the given usage counts.
UsageLine(input, output, cache_read, cache_creation) ==
    Line("entry", 0, "assistant", << Block("text", << "o", "k" >>) >>,
         Some([input_tokens |-> input, output_tokens |-> output,
               cache_read_input_tokens |-> cache_read,
               cache_creation_input_tokens |-> cache_creation]),
         Some("m1"))

\* A user message: no usage, no model.
UserLine == Line("entry", 0, "user", << Block("text", << "q" >>) >>, None, None)

\* A line that is not parsable JSON.
GarbageLine == Line("garbage", 0, "", << >>, None, None)

\* A line that is JSON but not an object (`[]`, `5`, `null`): entry.get raises
\* AttributeError, which only the outer `except Exception` of a reader catches.
NonObjectLine == Line("nonobject", 0, "", << >>, None, None)

\* The shapes of line the host engine appends (the timestamp is set on append).
LineShapes == { TextLine, ToolCallLine, UserLine, GarbageLine, NonObjectLine }

ZeroTokens == [input |-> 0, output |-> 0, cache_read |-> 0, cache_creation |-> 0]

AddUsage(tokens, usage) ==
    [input          |-> tokens.input + usage.input_tokens,
     output         |-> tokens.output + usage.output_tokens,
     cache_read     |-> tokens.cache_read + usage.cache_read_input_tokens,
     cache_creation |-> tokens.cache_creation + usage.cache_creation_input_tokens]

\* `if last_timestamp and entry_ts <= last_timestamp: continue`
AlreadyProcessed(entry_ts, last_timestamp) ==
    IsSome(last_timestamp) /\ entry_ts <= Val(last_timestamp)

\* `if usage and usage.get("input_tokens")`
CountsIncrementally(usage) == IsSome(usage) /\ Val(usage).input_tokens # 0

RECURSIVE IncrementalLoop(_, _, _, _)
\* The loop of get_incremental_usage over lines[i..]; acc is result and
\* latest_ts.  acc.selected is the set of line numbers whose usage was added.
\* A line that raises ends the scan with the result as it stands: the usage
\* added so far, and last_timestamp as it was passed in.
IncrementalLoop(lines, i, last_timestamp, acc) ==
    IF i > Len(lines) THEN [acc EXCEPT !.last_timestamp = acc.latest_ts]
    ELSE LET e == lines[i] IN
         IF e.kind = "nonobject" THEN acc
         ELSE IF e.kind = "garbage" \/ AlreadyProcessed(e.ts, last_timestamp)
         THEN IncrementalLoop(lines, i + 1, last_timestamp, acc)
         ELSE LET counts == CountsIncrementally(e.usage)
                  u == IF counts THEN Val(e.usage) ELSE NoUsage
              IN IncrementalLoop(lines, i + 1, last_timestamp,
                   [usage          |-> AddUsage(acc.usage, u),
                    model          |-> IF IsSome(e.model) THEN e.model ELSE acc.model,
                    context_tokens |-> IF counts
                                       THEN u.input_tokens + u.cache_read_input_tokens
                                       ELSE acc.context_tokens,
                    last_timestamp |-> acc.last_timestamp,
                    latest_ts      |-> IF IsSome(acc.latest_ts)
                                       THEN Some(Max(e.ts, Val(acc.latest_ts)))
                                       ELSE Some(e.ts),
                    selected       |-> IF counts THEN acc.selected \cup {i}
                                       ELSE acc.selected])

\* get_incremental_usage(transcript_path, last_timestamp); lines is the content
\* of the transcript file, << >> when the file is absent or empty.
get_incremental_usage(lines, last_timestamp) ==
    IncrementalLoop(lines, 1, last_timestamp,
        [usage |-> ZeroTokens, model |-> None, context_tokens |-> 0,
         last_timestamp |-> last_timestamp, latest_ts |-> last_timestamp,
         selected |-> {}])

RECURSIVE SessionInfoLoop(_, _, _, _)
SessionInfoLoop(lines, i, start_utc, acc) ==
    IF i > Len(lines) THEN acc
    ELSE LET e == lines[i] IN
         IF e.kind = "nonobject" THEN acc
         ELSE IF e.kind = "garbage" \/ e.ts < start_utc
         THEN SessionInfoLoop(lines, i + 1, start_utc, acc)
         ELSE SessionInfoLoop(lines, i + 1, start_utc,
                [tokens         |-> IF IsSome(e.usage)
                                    THEN AddUsage(acc.tokens, Val(e.usage))
                                    ELSE acc.tokens,
                 model          |-> IF IsSome(acc.model) THEN acc.model ELSE e.model,
                 context_tokens |-> IF IsSome(e.usage)
                                    THEN Val(e.usage).input_tokens
                                         + Val(e.usage).cache_read_input_tokens
                                    ELSE acc.context_tokens])

\* get_session_info(transcript_path, session_start_time): the start time is a
\* naive local time, converted to UTC with the local offset before comparing.
get_session_info(lines, session_start_time) ==
    SessionInfoLoop(lines, 1, session_start_time - TzOffset,
        [tokens |-> ZeroTokens, model |-> None, context_tokens |-> 0])

\* The text of one entry as get_latest_response extracts it.
ResponseText(e) ==
    LET texts == SelectSeq(e.content, LAMBDA c : c.type = "text")
    IN Strip(Join([k \in 1..Len(texts) |-> texts[k].text]))

\* `response[:max_length]` without the "..." that follows it.
TruncateResponseNoMarker(response, max_length) ==
    IF max_length > 0 /\ Len(response) > max_length
    THEN SubSeq(response, 1, max_length)
    ELSE response

\* `if max_length > 0 and len(response) > max_length:
\*      response = response[:max_length] + "..."`
TruncateResponse(response, max_length) ==
    IF max_length > 0 /\ Len(response) > max_length
    THEN SubSeq(response, 1, max_length) \o Ellipsis
    ELSE response

RECURSIVE LatestLoop(_, _, _)
LatestLoop(lines, i, max_length) ==
    IF i < 1 THEN None
    ELSE LET e == lines[i] IN
         IF e.kind = "nonobject" THEN None
         ELSE IF e.kind = "entry" /\ e.role = "assistant" /\ ResponseText(e) # << >>
         THEN Some(TruncateResponse(ResponseText(e), max_length))
         ELSE LatestLoop(lines, i - 1, max_length)

\* get_latest_response(transcript_path, max_length): the lines in reverse order.
get_latest_response(lines, max_length) == LatestLoop(lines, Len(lines), max_length)

\* The sum of calculate_cost(tokens) before rounding, in units of 1e-8 USD.
RawCost(tokens) ==
    PRICE_INPUT * tokens.input + PRICE_OUTPUT * tokens.output
    + PRICE_CACHE_READ * tokens.cache_read + PRICE_CACHE_CREATION * tokens.cache_creation

\* A calculate_cost that cuts the sum off after 4 decimals.
calculate_cost_truncated(tokens) == { RawCost(tokens) \div 10000 }

\* calculate_cost(tokens): the values round(cost, 4) can take, in units of
\* 1e-4 USD.  The sum is a binary floating-point number within a few ulps of
\* the exact sum: off a tie it rounds as the exact sum does; at an exact tie
\* (the sum ends in 5 at the fifth decimal) the float lies just below or
\* just above the tie, and the result is the lower or the upper neighbour.
calculate_cost(tokens) ==
    LET raw == RawCost(tokens)
        q == raw \div 10000
        r == raw % 10000
    IN IF r < 5000 THEN { q } ELSE IF r > 5000 THEN { q + 1 } ELSE { q, q + 1 }

\* get_session_id(transcript_path): the file stem up to its first "-".
\* A transcript path is given by the "-"-separated parts of its stem.
get_session_id(transcript_path) ==
    IF transcript_path = << >> THEN "unknown" ELSE transcript_path[1]

\* ---------------------------------------------------------- configuration
(***************************************************************************)
(* The configuration file <project>/.claude/log-lightweight.config.json:   *)
(* absent, not valid JSON, or a JSON object.  The object is a record with   *)
(* the set of its keys; cost_alert is None when its value is not an object, *)
(* context_limit is None when its value is not a number.                    *)
(***************************************************************************)
Defaults ==
    [enabled |-> TRUE, response_max_length |-> 0, context_limit |-> Some(CONTEXT_LIMIT),
     tools_to_log |-> DEFAULT_TOOLS_TO_LOG, performance_tracking |-> FALSE]

UserConfig(keys, enabled, cost_alert_ok, response_max_length, context_limit, perf) ==
    [kind |-> "json", keys |-> keys, enabled |-> enabled, cost_alert_ok |-> cost_alert_ok,
     response_max_length |-> response_max_length, context_limit |-> context_limit,
     tools_to_log |-> DEFAULT_TOOLS_TO_LOG, performance_tracking |-> perf]

AbsentConfig == [UserConfig({}, TRUE, TRUE, 0, Some(CONTEXT_LIMIT), FALSE) EXCEPT !.kind = "absent"]
InvalidConfig == [UserConfig({}, TRUE, TRUE, 0, Some(CONTEXT_LIMIT), FALSE) EXCEPT !.kind = "invalid"]

\* {"enabled": false}
DisabledConfig == UserConfig({"enabled"}, FALSE, TRUE, 0, Some(CONTEXT_LIMIT), FALSE)

\* {"tools_to_log": [..., "Bash"]}: the default watch list and the shell tool.
WatchBashConfig ==
    [UserConfig({"tools_to_log"}, TRUE, TRUE, 0, Some(CONTEXT_LIMIT), FALSE)
       EXCEPT !.tools_to_log = DEFAULT_TOOLS_TO_LOG \cup {"Bash"}]

\* {"context_limit": 0} and {"context_limit": -1}
ZeroLimitConfig == UserConfig({"context_limit"}, TRUE, TRUE, 0, Some(0), FALSE)
NegativeLimitConfig == UserConfig({"context_limit"}, TRUE, TRUE, 0, Some(-1), FALSE)

\* {"enabled": false, "performance_tracking": true}
DisabledPerfConfig ==
    UserConfig({"enabled", "performance_tracking"}, FALSE, TRUE, 0, Some(CONTEXT_LIMIT), TRUE)

\* {"response_max_length": 5}
ResponseMax5Config ==
    UserConfig({"response_max_length"}, TRUE, TRUE, 5, Some(CONTEXT_LIMIT), FALSE)

\* Configuration files whose options all have the documented types.
ValidConfigFiles ==
    { AbsentConfig, DisabledConfig, DisabledPerfConfig, WatchBashConfig,
      ResponseMax5Config,
      ZeroLimitConfig, NegativeLimitConfig,
      UserConfig({"response_max_length", "context_limit"}, TRUE, TRUE, 3, Some(0), FALSE) }

\* Configuration files that are malformed or hold a value of the wrong type.
BrokenConfigFiles ==
    { InvalidConfig,
      UserConfig({"context_limit"}, TRUE, TRUE, 0, None, FALSE),
      UserConfig({"cost_alert"}, TRUE, FALSE, 0, Some(CONTEXT_LIMIT), FALSE),
      UserConfig({"performance_tracking"}, TRUE, TRUE, 0, Some(CONTEXT_LIMIT), TRUE) }

\* A file holding a JSON array or string in which no option name occurs, such
\* as [1, 2]: `key in user_config` is False for every key.
ArrayConfig == [UserConfig({}, TRUE, TRUE, 0, Some(CONTEXT_LIMIT), FALSE) EXCEPT !.kind = "array"]

\* A file holding a JSON number, boolean or null, such as 5: `key in
\* user_config` raises TypeError.
ScalarConfig == [UserConfig({}, TRUE, TRUE, 0, Some(CONTEXT_LIMIT), FALSE) EXCEPT !.kind = "scalar"]

\* Configuration files that are not valid JSON, not a JSON object, or hold a
\* cost_alert that is not an object ({"cost_alert": 5}).
MalformedConfigFiles ==
    { InvalidConfig, ArrayConfig, ScalarConfig,
      UserConfig({"cost_alert"}, TRUE, FALSE, 0, Some(CONTEXT_LIMIT), FALSE) }

\* get_config(): the defaults overridden by the keys of the file.  raised is
\* TRUE when `key in user_config` or defaults["cost_alert"].update(...) raises
\* TypeError, which the except clause of get_config does not catch.
get_config(file) ==
    IF file.kind # "json" THEN [raised |-> file.kind = "scalar", config |-> Defaults]
    ELSE [raised |-> "cost_alert" \in file.keys /\ ~file.cost_alert_ok,
          config |->
            [enabled |-> IF "enabled" \in file.keys THEN file.enabled
                         ELSE Defaults.enabled,
             response_max_length |->
                 IF "response_max_length" \in file.keys THEN file.response_max_length
                 ELSE Defaults.response_max_length,
             context_limit |-> IF "context_limit" \in file.keys THEN file.context_limit
                               ELSE Defaults.context_limit,
             tools_to_log |-> IF "tools_to_log" \in file.keys THEN file.tools_to_log
                              ELSE Defaults.tools_to_log,
             performance_tracking |->
                 IF "performance_tracking" \in file.keys THEN file.performance_tracking
                 ELSE Defaults.performance_tracking]]

\* ------------------------------------------------------------ session state
StateKeys ==
    {"start_time", "session_id", "transcript_path", "project_root", "timeline",
     "pending_tool", "pending_subagent", "files_modified", "error_count", "tokens",
     "context_tokens", "model", "last_processed_timestamp"}

\* The empty mapping {}.
EmptyState ==
    [keys |-> {}, start_time |-> 0, session_id |-> "", transcript_path |-> << >>,
     project_root |-> "", timeline |-> << >>, pending_tool |-> None,
     pending_subagent |-> None, files_modified |-> << >>, error_count |-> 0,
     tokens |-> ZeroTokens, context_tokens |-> 0, model |-> None,
     last_processed_timestamp |-> None]

\* `if state` / state.get(key)
Truthy(state) == state.keys # {}
Has(state, key) == key \in state.keys
HasStartTime(state) == Has(state, "start_time")

\* The state file: absent, corrupt (text that is not JSON), undecodable (bytes
\* that are not UTF-8, such as a write cut off inside a character), or a JSON
\* object.
AbsentFile == [kind |-> "absent", data |-> EmptyState]
CorruptFile == [kind |-> "corrupt", data |-> EmptyState]
UndecodableFile == [kind |-> "undecodable", data |-> EmptyState]
JsonFile(state) == [kind |-> "json", data |-> state]

\* read_state(): {} for an absent file and for JSONDecodeError / IOError.
read_state(file) == IF file.kind = "json" THEN file.data ELSE EmptyState

\* read_text raises UnicodeDecodeError, which read_state does not catch.
read_state_raises(file) == file.kind = "undecodable"

\* A new_state that never takes over the timeline of the existing state.
SessionStartStateEmptyTimeline(session_id, transcript_path, cwd, existing_timeline, utc) ==
    [keys |-> StateKeys, start_time |-> LocalNow(utc), session_id |-> session_id,
     transcript_path |-> transcript_path, project_root |-> cwd,
     timeline |-> << >>, pending_tool |-> None, pending_subagent |-> None,
     files_modified |-> << >>, error_count |-> 0, tokens |-> ZeroTokens,
     context_tokens |-> 0, model |-> None, last_processed_timestamp |-> Some(utc)]

\* new_state of the SessionStart branch.
SessionStartState(session_id, transcript_path, cwd, existing_timeline, utc) ==
    [keys |-> StateKeys, start_time |-> LocalNow(utc), session_id |-> session_id,
     transcript_path |-> transcript_path, project_root |-> cwd,
     timeline |-> existing_timeline, pending_tool |-> None, pending_subagent |-> None,
     files_modified |-> << >>, error_count |-> 0, tokens |-> ZeroTokens,
     context_tokens |-> 0, model |-> None, last_processed_timestamp |-> Some(utc)]

\* new_state of the UserPromptSubmit branch: no session_id key.
PromptState(transcript_path, cwd, timeline, utc) ==
    [SessionStartState("", transcript_path, cwd, timeline, utc)
        EXCEPT !.keys = StateKeys \ {"session_id"}]

\* ------------------------------------------------------ tool summarisation
(***************************************************************************)
(* A tool_input is a record with the set of its keys; a tool_response is   *)
(* None (null) or a dict with an optional error text, an optional exit      *)
(* code and the number of new lines of its structured patch (0: none).      *)
(***************************************************************************)
ToolInput(keys, file_path, subagent_type, prompt, command) ==
    [keys |-> keys, file_path |-> file_path, subagent_type |-> subagent_type,
     prompt |-> prompt, command |-> command]

ToolResponse(error, exit_code, patch_lines) ==
    [error |-> error, exit_code |-> exit_code, patch_lines |-> patch_lines]

\* summarize_tool_input(tool_name, tool_input)
summarize_tool_input(tool_name, tool_input) ==
    IF tool_input.keys = {} THEN << >>
    ELSE IF tool_name \in {"Read", "Edit", "MultiEdit", "Write"}
         THEN << get_filename(tool_input.file_path) >>
    ELSE IF tool_name = "Bash" THEN truncate(tool_input.command, 50)
    ELSE IF tool_name = "Task"
         THEN IF tool_input.subagent_type # ""
              THEN << tool_input.subagent_type, ": ", truncate(tool_input.prompt, 40) >>
              ELSE << truncate(tool_input.prompt, 50) >>
    ELSE IF "file_path" \in tool_input.keys
         THEN << get_filename(tool_input.file_path) >>
    ELSE << "str", tool_input.keys >>

\* summarize_tool_output(tool_name, tool_response); << >> is the empty string.
summarize_tool_output(tool_name, tool_response) ==
    IF ~IsSome(tool_response) THEN << >>
    ELSE IF IsSome(Val(tool_response).error)
         THEN << "failed", truncate(Val(Val(tool_response).error), 30) >>
    ELSE IF tool_name \in {"Edit", "MultiEdit"} /\ Val(tool_response).patch_lines > 0
         THEN << "lines changed", Val(tool_response).patch_lines >>
    ELSE << >>

\* is_error of the PostToolUse branch
is_error(tool_name, tool_response) ==
    /\ IsSome(tool_response)
    /\ \/ IsSome(Val(tool_response).error)
       \/ /\ tool_name = "Bash"
          /\ IsSome(Val(tool_response).exit_code)
          /\ Val(Val(tool_response).exit_code) # 0

\* --------------------------------------------------------- timeline entries
PromptEntry(ts, content) == [ts |-> ts, type |-> "prompt", content |-> content]
ResponseEntry(ts, content) == [ts |-> ts, type |-> "response", content |-> content]
PermissionEntry(ts, tool, input) ==
    [ts |-> ts, type |-> "permission_request", tool |-> tool, input |-> input]
\* A subagent entry that reports a failure.
SubagentEntryFailed(ts, subagent_type, duration) ==
    [ts |-> ts, type |-> "subagent", subagent_type |-> subagent_type,
     duration_sec |-> duration, success |-> FALSE]

SubagentEntry(ts, subagent_type, duration) ==
    [ts |-> ts, type |-> "subagent", subagent_type |-> subagent_type,
     duration_sec |-> duration, success |-> TRUE]
\* A tool entry that does not name its tool.
ToolEntryUnnamed(ts, tool, input, output) ==
    [ts |-> ts, type |-> "tool", tool |-> "", input |-> input]

\* The output key is present only when the output summary is not empty.
ToolEntry(ts, tool, input, output) ==
    IF output = << >>
    THEN [ts |-> ts, type |-> "tool", tool |-> tool, input |-> input]
    ELSE [ts |-> ts, type |-> "tool", tool |-> tool, input |-> input, output |-> output]

\* A marker that does not name its tool.
PendingToolUnnamed(ts, tool, input) == [ts |-> ts, tool |-> "", input |-> input]

PendingTool(ts, tool, input) == [ts |-> ts, tool |-> tool, input |-> input]
PendingSubagent(type, start_time) == [type |-> type, start_time |-> start_time]

\* ------------------------------------------------------------- log snapshot
\* round(a / b * k, ...) for b > 0: a / b rounded half to even.
RoundDiv(a, b) ==
    LET q == a \div b
        r == a - q * b
    IN IF 2 * r > b \/ (2 * r = b /\ q % 2 = 1) THEN q + 1 ELSE q

\* A percentage: the literal "0%" / "100%" of the non-positive limit branch, or
\* a number rounded to one decimal, in tenths of a percent.
Percent(literal, tenths) == [literal |-> literal, tenths |-> tenths]

\* context_used of write_log_snapshot, for a numeric context_limit
context_used(context_tokens, context_limit) ==
    IF context_limit > 0
    THEN Percent(FALSE, RoundDiv(context_tokens * 1000, context_limit))
    ELSE Percent(TRUE, 0)

\* A context_remaining that reports "0%" for a limit that is not positive.
context_remaining_none_left(context_tokens, context_limit) ==
    IF context_limit > 0
    THEN Percent(FALSE, RoundDiv((context_limit - context_tokens) * 1000, context_limit))
    ELSE Percent(TRUE, 0)

\* context_remaining of write_log_snapshot, for a numeric context_limit
context_remaining(context_tokens, context_limit) ==
    IF context_limit > 0
    THEN Percent(FALSE, RoundDiv((context_limit - context_tokens) * 1000, context_limit))
    ELSE Percent(TRUE, 1000)

\* The name of a session's log file: <date>-<HHMM>-<session id>.log
LogFileName(start_time, transcript_path) ==
    << format_timestamp(start_time), get_session_id(transcript_path) >>

(***************************************************************************)
(* write_log_snapshot(state, config, full_token_update) up to the call of   *)
(* append_to_log: skipped without start_time; raised when context_limit is  *)
(* not a number (TypeError at `context_limit > 0`); otherwise the entry to   *)
(* write and its file name.  lines is the content of the state's transcript.*)
(***************************************************************************)
SnapshotOf(state, config, full_token_update, utc, lines, cost) ==
    IF ~Truthy(state) \/ ~HasStartTime(state)
    THEN [outcome |-> "skipped", mode |-> "none"]
    ELSE LET info == get_session_info(lines, state.start_time)
             tokens == IF full_token_update THEN info.tokens ELSE state.tokens
             ctx == IF full_token_update THEN info.context_tokens
                    ELSE state.context_tokens
             model == IF full_token_update
                      THEN IF IsSome(info.model) THEN info.model ELSE state.model
                      ELSE state.model
             mode == IF full_token_update THEN "full" ELSE "cached"
         IN IF ~IsSome(config.context_limit)
            THEN [outcome |-> "raised", mode |-> mode]
            ELSE [outcome |-> "entry", mode |-> mode,
                  name |-> LogFileName(state.start_time, state.transcript_path),
                  entry |->
                    [model |-> model,
                     duration_sec |-> calculate_duration(state.start_time, LocalNow(utc)),
                     cost_estimate |-> cost,
                     tokens |-> tokens,
                     context_tokens |-> ctx,
                     context_limit |-> Val(config.context_limit),
                     context_used |-> context_used(ctx, Val(config.context_limit)),
                     context_remaining |->
                         context_remaining(ctx, Val(config.context_limit)),
                     files_modified |-> state.files_modified,
                     error_count |-> state.error_count,
                     start_time |-> state.start_time,
                     end_time |-> LocalNow(utc),
                     transcript_path |-> state.transcript_path,
                     timeline |-> state.timeline]]

\* ------------------------------------------------------------------- state
VARIABLES
    now,          \* the clock (UTC), in ticks
    config_file,  \* the configuration file
    state_file,   \* <log dir>/.state.json
    dir_exists,   \* whether the log directory exists
    schema_file,  \* whether <log dir>/_schema.json exists
    logs,         \* the snapshot files: file name -> the session (start_time,
                  \* transcript_path) of the entry the file holds
    transcripts,  \* transcript path -> the lines of the transcript
    perf_log,     \* the number of lines of performance.log
    errors_log,   \* the number of messages in errors.log
    last,         \* the last invocation: its event and payload, whether it found
                  \* a state, its exit status, whether it raised, the outcome of
                  \* its write_state, how it computed the snapshot's tokens, and
                  \* the snapshot file it wrote (name and entry) if any
    counted,      \* transcript path -> per line, how often the current
                  \* session's persisted tokens took in the line's usage
    watermark0,   \* the watermark the current session's state was created with
    session_log,  \* the name of the first snapshot file the current session wrote
    invocations   \* the invocations that ran main() step by step, in the order
                  \* they started: the payload, the configuration and state each
                  \* read at lines 615 and 623, and whether it has exited

vars == << now, config_file, state_file, dir_exists, schema_file, logs, transcripts,
           perf_log, errors_log, last, counted, watermark0, session_log,
           invocations >>


\* Transcript paths, each given by the "-"-separated parts of its file stem.
PathA == << "4f3b", "e816" >>
PathB == << "9c2a", "e816" >>
Paths == { PathA, PathB }
Cwd == "proj"
SessionIds == { "s1" }
Triggers == { "startup", "resume" }
Prompts == { "p" }

EditA == ToolInput({"file_path"}, << "src", "a.py" >>, "", << >>, << >>)
EditB == ToolInput({"file_path"}, << "lib", "a.py" >>, "", << >>, << >>)
WriteB == ToolInput({"file_path"}, << "src", "b.py" >>, "", << >>, << >>)
EditC == ToolInput({"file_path"}, << "src", "c.py" >>, "", << >>, << >>)
TaskX == ToolInput({"subagent_type", "prompt"}, << >>, "explore", << "g", "o" >>, << >>)
TaskY == ToolInput({"subagent_type", "prompt"}, << >>, "review", << "g", "o" >>, << >>)
BashLs == ToolInput({"command"}, << >>, "", << >>, << "l", "s" >>)

\* The tool calls of the host: tool_name and tool_input.
ToolCalls ==
    { << "Edit", EditA >>, << "Edit", EditB >>, << "Task", TaskX >>, << "Bash", BashLs >> }

OkResponse == Some(ToolResponse(None, None, 0))
ErrorResponse == Some(ToolResponse(Some(<< "E" >>), None, 0))
\* {"exitCode": 1} and {"exitCode": 0}
ExitOneResponse == Some(ToolResponse(None, Some(1), 0))
ExitZeroResponse == Some(ToolResponse(None, Some(0), 0))
ToolResponses == { OkResponse, ErrorResponse, ExitOneResponse, ExitZeroResponse }

\* What can go wrong in the file system during one invocation; "stderr_write":
\* the standard error stream cannot be written (a closed pipe, a full device).
Faults ==
    { "none", "mkdir", "state_write", "log_write", "perf_write", "errlog_write",
      "stderr_write" }

NoLogs == [n \in {} |-> 0]
NoCounts == [p \in Paths |-> [i \in 1..Len(transcripts[p]) |-> 0]]

TranscriptOf(state) ==
    IF state.transcript_path \in Paths THEN transcripts[state.transcript_path]
    ELSE << >>

TotalLines == Len(transcripts[PathA]) + Len(transcripts[PathB])

Last(event, payload, had_state, exit, raised, swrite, mode, written) ==
    [event |-> event, payload |-> payload, had_state |-> had_state, exit |-> exit,
     raised |-> raised, swrite |-> swrite, mode |-> mode, written |-> written]

\* ------------------------------------------------------------ file writes
\* swrite: the outcome of write_state ("none": not called, "ok", "failed");
\* written: None, or the name and the entry of the snapshot file written.
Out(file, dir, lg, schema, raised, swrite, mode, written) ==
    [file |-> file, dir |-> dir, logs |-> lg, schema |-> schema, raised |-> raised,
     swrite |-> swrite, mode |-> mode, written |-> written]

\* What logs keeps of an entry: the session it belongs to.
SessionOf(entry) ==
    [start_time |-> entry.start_time, transcript_path |-> entry.transcript_path]

\* An invocation that writes nothing.
Untouched == Out(state_file, dir_exists, logs, schema_file, FALSE, "none", "none", None)

(***************************************************************************)
(* write_state(state): the outcomes under fault f.  mkdir is outside the    *)
(* try and raises; a failed write_text (IOError) is caught and reported and *)
(* leaves the file as it was or truncated.                                  *)
(***************************************************************************)
write_state(file, dir, state, f) ==
    IF f = "mkdir"
    THEN { [raised |-> TRUE, swrite |-> "failed", file |-> file, dir |-> dir] }
    ELSE IF f = "state_write"
         THEN { [raised |-> FALSE, swrite |-> "failed", file |-> file, dir |-> TRUE],
                [raised |-> FALSE, swrite |-> "failed", file |-> CorruptFile,
                 dir |-> TRUE],
                [raised |-> FALSE, swrite |-> "failed", file |-> UndecodableFile,
                 dir |-> TRUE] }
    ELSE { [raised |-> FALSE, swrite |-> "ok", file |-> JsonFile(state), dir |-> TRUE] }

(***************************************************************************)
(* write_log_snapshot(state, config, full_token_update) after a state file  *)
(* and directory (file, dir): append_to_log catches every exception, so a   *)
(* failed mkdir or write leaves the log files as they were.                 *)
(***************************************************************************)
SnapshotWritten(file, dir, swrite, state, config, full_token_update, f, cost) ==
    LET sn == SnapshotOf(state, config, full_token_update, now, TranscriptOf(state), cost)
    IN IF sn.outcome = "skipped"
       THEN Out(file, dir, logs, schema_file, FALSE, swrite, "none", None)
       ELSE IF sn.outcome = "raised"
       THEN Out(file, dir, logs, schema_file, TRUE, swrite, sn.mode, None)
       ELSE IF f = "mkdir"
       THEN Out(file, dir, logs, schema_file, FALSE, swrite, sn.mode, None)
       ELSE IF f = "log_write"
       THEN Out(file, TRUE, logs, TRUE, FALSE, swrite, sn.mode, None)
       ELSE Out(file, TRUE, (sn.name :> SessionOf(sn.entry)) @@ logs, TRUE, FALSE,
                swrite, sn.mode, Some([name |-> sn.name, entry |-> sn.entry]))

\* The tokens write_log_snapshot reports: rescanned or cached.
SnapshotTokens(state, full_token_update) ==
    IF full_token_update
    THEN get_session_info(TranscriptOf(state), state.start_time).tokens
    ELSE state.tokens

\* write_log_snapshot(state, config, full_token_update): its outcomes, one for
\* each value calculate_cost can return.
write_log_snapshot(file, dir, swrite, state, config, full_token_update, f) ==
    { SnapshotWritten(file, dir, swrite, state, config, full_token_update, f, cost)
      : cost \in calculate_cost(SnapshotTokens(state, full_token_update)) }

\* write_state(state); write_log_snapshot(state, config)
StateThenSnapshot(state, config, f) ==
    UNION { IF w.raised
            THEN { Out(w.file, w.dir, logs, schema_file, TRUE, w.swrite, "none", None) }
            ELSE write_log_snapshot(w.file, w.dir, w.swrite, state, config, FALSE, f)
            : w \in write_state(state_file, dir_exists, state, f) }

\* A write_state(state) that is followed by a snapshot.
StateOnlyThenSnapshot(state, f) == StateThenSnapshot(state, Defaults, f)

\* write_state(state) alone
StateOnly(state, f) ==
    { Out(w.file, w.dir, logs, schema_file, w.raised, w.swrite, "none", None)
      : w \in write_state(state_file, dir_exists, state, f) }

\* ------------------------------------------------------------ invocations
\* The exit statuses of the top-level `except Exception` handler.  It prints
\* the error to sys.stderr outside any try: when that write fails the handler
\* itself raises, errors.log is not written, and the interpreter exits with
\* status 1 (unbuffered stderr) or 120 (the flush at shutdown fails).
\* Otherwise the write of errors.log is wrapped in try/except, then sys.exit(0).
ExitAfterError(stderr_failed) == IF stderr_failed THEN { 1, 120 } ELSE { 0 }

(***************************************************************************)
(* The end of main() for an invocation whose branch left the outcome o:     *)
(* the performance log (when tracking is on and nothing was raised), then   *)
(* sys.exit(0); or, when something was raised, the top-level handler, which *)
(* appends to errors.log and exits.  perf is FALSE for the early            *)
(* sys.exit(0) of a disabled configuration; new_session is TRUE when the    *)
(* invocation replaced the state by the state of another session.           *)
(***************************************************************************)
Exit(event, payload, had_state, config, o, f, perf, new_session) ==
    LET perf_on == perf /\ ~o.raised /\ config.performance_tracking
        perf_raises == perf_on /\ f \in {"perf_write", "mkdir"}
        raised == o.raised \/ perf_raises
        perf_written == perf_on /\ ~perf_raises
        err_written == raised /\ f \notin {"errlog_write", "mkdir", "stderr_write"}
        session == IF new_session THEN None ELSE session_log
    IN /\ perf_written => perf_log < MaxLogLines
       /\ err_written => errors_log < MaxLogLines
       /\ state_file' = o.file
       /\ logs' = o.logs
       /\ schema_file' = o.schema
       /\ dir_exists' = (o.dir \/ perf_written \/ err_written)
       /\ perf_log' = IF perf_written THEN perf_log + 1 ELSE perf_log
       /\ errors_log' = IF err_written THEN errors_log + 1 ELSE errors_log
       /\ \E exit \in IF raised THEN ExitAfterError(f = "stderr_write") ELSE { 0 } :
            last' = Last(event, payload, had_state, exit,
                         raised, o.swrite, o.mode, o.written)
       /\ session_log' = IF IsSome(session) \/ ~IsSome(o.written) THEN session
                         ELSE Some(Val(o.written).name)
       /\ UNCHANGED << now, config_file, transcripts >>

\* The end of main() for an invocation that ran from the read of the state to
\* its exit in one step.
Finish(event, payload, config, o, f, perf, new_session) ==
    /\ Exit(event, payload, Truthy(read_state(state_file)), config, o, f, perf,
            new_session)
    /\ UNCHANGED invocations

\* A main() that does not look at `enabled`.
EarlyOnlyWhenRaised(cr) == cr.raised

\* The start of main(): get_config() raised, or logging is disabled, or
\* read_state() raised.
Early(cr) == cr.raised \/ ~cr.config.enabled \/ read_state_raises(state_file)

EarlyExit(event, cr, f) ==
    /\ Finish(event, << >>, cr.config,
              [Untouched EXCEPT !.raised = cr.raised \/ cr.config.enabled], f,
              FALSE, FALSE)
    /\ UNCHANGED << counted, watermark0 >>

\* json.load(sys.stdin) raises, or the payload is not a JSON object.
BadInput(f) ==
    /\ Finish("BadInput", << >>, Defaults, [Untouched EXCEPT !.raised = TRUE], f,
              FALSE, FALSE)
    /\ UNCHANGED << counted, watermark0 >>

\* hook_event_name is missing or names no branch of main().
UnknownEvent(f) ==
    LET cr == get_config(config_file) IN
    IF Early(cr) THEN EarlyExit("Unknown", cr, f)
    ELSE /\ Finish("Unknown", << >>, cr.config, Untouched, f, TRUE, FALSE)
         /\ UNCHANGED << counted, watermark0 >>

\* hook_event == "SessionStart"
SessionStart(session_id, transcript_path, trigger, f) ==
    LET cr == get_config(config_file)
        state == read_state(state_file)
        same == /\ trigger = "startup"
                /\ Has(state, "transcript_path")
                /\ state.transcript_path = transcript_path
        existing_timeline == IF same THEN state.timeline ELSE << >>
        new_state ==
            SessionStartState(session_id, transcript_path, Cwd, existing_timeline, now)
    IN IF Early(cr) THEN EarlyExit("SessionStart", cr, f)
       ELSE \E o \in StateOnly(new_state, f) :
              /\ Finish("SessionStart", << trigger, transcript_path >>, cr.config, o, f,
                        TRUE, ~same /\ o.file = JsonFile(new_state))
              /\ IF o.file = JsonFile(new_state)
                 THEN counted' = NoCounts /\ watermark0' = Some(now)
                 ELSE UNCHANGED << counted, watermark0 >>

\* Whether the persisted state belongs to the event's transcript.
SameSession(state, transcript_path) ==
    /\ Has(state, "transcript_path")
    /\ state.transcript_path = transcript_path
    /\ HasStartTime(state)

\* hook_event == "UserPromptSubmit"
UserPromptSubmit(prompt, transcript_path, f) ==
    LET cr == get_config(config_file)
        state == read_state(state_file)
        entry == PromptEntry(format_timestamp(LocalNow(now)), prompt)
        same == SameSession(state, transcript_path)
        state1 == IF same THEN [state EXCEPT !.timeline = Append(@, entry)]
                  ELSE PromptState(transcript_path, Cwd, << entry >>, now)
    IN IF Early(cr) THEN EarlyExit("UserPromptSubmit", cr, f)
       ELSE /\ Len(state1.timeline) <= MaxTimeline
            /\ \E o \in StateThenSnapshot(state1, cr.config, f) :
                 /\ Finish("UserPromptSubmit", << transcript_path >>, cr.config, o, f,
                           TRUE, ~same /\ o.file = JsonFile(state1))
                 /\ IF ~same /\ o.file = JsonFile(state1)
                    THEN counted' = NoCounts /\ watermark0' = Some(now)
                    ELSE UNCHANGED << counted, watermark0 >>

\* hook_event == "PreToolUse"
PreToolUse(tool_name, tool_input, f) ==
    LET cr == get_config(config_file)
        state == read_state(state_file)
        state1 == [state EXCEPT
                     !.keys = @ \cup {"pending_tool"},
                     !.pending_tool =
                         Some(PendingTool(LocalNow(now), tool_name,
                                          summarize_tool_input(tool_name, tool_input)))]
    IN IF Early(cr) THEN EarlyExit("PreToolUse", cr, f)
       ELSE /\ UNCHANGED << counted, watermark0 >>
            /\ IF Truthy(state) /\ tool_name \in cr.config.tools_to_log
               THEN \E o \in StateOnly(state1, f) :
                      Finish("PreToolUse", << tool_name, tool_input >>, cr.config, o, f,
                             TRUE, FALSE)
               ELSE Finish("PreToolUse", << tool_name, tool_input >>, cr.config,
                           Untouched, f, TRUE, FALSE)

\* A PostToolUse that ignores the pending marker and always builds the entry
\* from its own time and tool_input.
PostToolEntryFresh(state, tool_name, tool_input, tool_response, utc) ==
    ToolEntry(format_timestamp(LocalNow(utc)), tool_name,
              summarize_tool_input(tool_name, tool_input),
              summarize_tool_output(tool_name, tool_response))

\* The tool entry of the PostToolUse branch: merged with the pending marker of
\* the same tool, or built from the PostToolUse data.
PostToolEntry(state, tool_name, tool_input, tool_response, utc) ==
    LET output == summarize_tool_output(tool_name, tool_response)
        pending == state.pending_tool
    IN IF IsSome(pending) /\ Val(pending).tool = tool_name
       THEN ToolEntry(format_timestamp(Val(pending).ts), tool_name,
                      Val(pending).input, output)
       ELSE ToolEntry(format_timestamp(LocalNow(utc)), tool_name,
                      summarize_tool_input(tool_name, tool_input), output)

\* A PostToolUse that lists the file name of every Edit, MultiEdit and Write
\* call, whether it is listed already or not.
FilesModifiedAppendsAlways(files_modified, tool_name, tool_input) ==
    IF tool_name \in {"Edit", "MultiEdit", "Write"} /\ tool_input.file_path # << >>
    THEN Append(files_modified, get_filename(tool_input.file_path))
    ELSE files_modified

\* files_modified after a PostToolUse
FilesModified(files_modified, tool_name, tool_input) ==
    LET filename == get_filename(tool_input.file_path) IN
    IF /\ tool_name \in {"Edit", "MultiEdit", "Write"}
       /\ "file_path" \in tool_input.keys
       /\ tool_input.file_path # << >>
       /\ filename # ""
       /\ filename \notin Range(files_modified)
    THEN Append(files_modified, filename)
    ELSE files_modified

\* The PostToolUse branch of main(), lines 716-779, run by an invocation that
\* read the configuration and the state before: what it persists is made
\* from the state it read.
PostToolUseBranch(config, state, tool_name, tool_input, tool_response, f) ==
    LET state1 ==
          [state EXCEPT
             !.keys = @ \cup {"timeline", "pending_tool"}
                        \cup (IF tool_name = "Task" THEN {"pending_subagent"} ELSE {}),
             !.timeline = Append(@, PostToolEntry(state, tool_name, tool_input,
                                                  tool_response, now)),
             !.pending_tool = None,
             !.files_modified = FilesModified(@, tool_name, tool_input),
             !.error_count = IF is_error(tool_name, tool_response) THEN @ + 1 ELSE @,
             !.pending_subagent =
                 IF tool_name = "Task"
                 THEN Some(PendingSubagent(
                        IF "subagent_type" \in tool_input.keys
                        THEN tool_input.subagent_type ELSE "unknown",
                        LocalNow(now)))
                 ELSE @]
    IN /\ UNCHANGED << counted, watermark0 >>
       /\ IF Truthy(state) /\ tool_name \in config.tools_to_log
          THEN /\ Len(state1.timeline) <= MaxTimeline
               /\ \E o \in StateThenSnapshot(state1, config, f) :
                    Exit("PostToolUse", << tool_name, tool_input >>, Truthy(state),
                         config, o, f, TRUE, FALSE)
          ELSE Exit("PostToolUse", << tool_name, tool_input >>, Truthy(state), config,
                    Untouched, f, TRUE, FALSE)

\* hook_event == "PostToolUse"
PostToolUse(tool_name, tool_input, tool_response, f) ==
    LET cr == get_config(config_file)
        state == read_state(state_file)
    IN IF Early(cr) THEN EarlyExit("PostToolUse", cr, f)
       ELSE /\ PostToolUseBranch(cr.config, state, tool_name, tool_input,
                                 tool_response, f)
            /\ UNCHANGED invocations

\* An invocation of main() for a PostToolUse that has read its payload, the
\* configuration and the state (lines 607-623) and has not yet run its branch.
Invocation(tool_name, tool_input, tool_response, config, state) ==
    [tool_name |-> tool_name, tool_input |-> tool_input,
     tool_response |-> tool_response, config |-> config, state |-> state,
     exited |-> FALSE]

\* main() up to `state = read_state()` for a PostToolUse: nothing is written.
\* No lock is taken, so other invocations may start or finish before this one
\* goes on.
PostToolUseReads(tool_name, tool_input, tool_response) ==
    LET cr == get_config(config_file)
    IN /\ Len(invocations) < MaxInvocations
       /\ ~Early(cr)
       /\ invocations' = Append(invocations,
                                Invocation(tool_name, tool_input, tool_response,
                                           cr.config, read_state(state_file)))
       /\ UNCHANGED << now, config_file, state_file, dir_exists, schema_file, logs,
                       transcripts, perf_log, errors_log, last, counted, watermark0,
                       session_log >>

\* The rest of main() for the i-th invocation: the PostToolUse branch on the
\* state it read, write_state, write_log_snapshot and the exit.
PostToolUseWrites(i) ==
    LET v == invocations[i]
    IN /\ ~v.exited
       /\ PostToolUseBranch(v.config, v.state, v.tool_name, v.tool_input,
                            v.tool_response, "none")
       /\ invocations' = [invocations EXCEPT ![i].exited = TRUE]

\* hook_event == "SubagentStop"
SubagentStop(f) ==
    LET cr == get_config(config_file)
        state == read_state(state_file)
        pending == state.pending_subagent
        end_time == LocalNow(now)
        state1 ==
          [state EXCEPT
             !.keys = @ \cup {"timeline", "pending_subagent"},
             !.timeline = Append(@, SubagentEntry(format_timestamp(end_time),
                              Val(pending).type,
                              calculate_duration(Val(pending).start_time, end_time))),
             !.pending_subagent = None]
    IN IF Early(cr) THEN EarlyExit("SubagentStop", cr, f)
       ELSE /\ UNCHANGED << counted, watermark0 >>
            /\ IF Truthy(state) /\ IsSome(pending)
               THEN /\ Len(state1.timeline) <= MaxTimeline
                    /\ \E o \in StateThenSnapshot(state1, cr.config, f) :
                         Finish("SubagentStop", << >>, cr.config, o, f, TRUE, FALSE)
               ELSE Finish("SubagentStop", << >>, cr.config, Untouched, f, TRUE, FALSE)

\* hook_event == "PermissionRequest"
PermissionRequest(tool_name, tool_input, f) ==
    LET cr == get_config(config_file)
        state == read_state(state_file)
        state1 ==
          [state EXCEPT
             !.keys = @ \cup {"timeline"},
             !.timeline = Append(@, PermissionEntry(format_timestamp(LocalNow(now)),
                              tool_name, summarize_tool_input(tool_name, tool_input)))]
    IN IF Early(cr) THEN EarlyExit("PermissionRequest", cr, f)
       ELSE /\ UNCHANGED << counted, watermark0 >>
            /\ IF Truthy(state)
               THEN /\ Len(state1.timeline) <= MaxTimeline
                    /\ \E o \in StateThenSnapshot(state1, cr.config, f) :
                         Finish("PermissionRequest", << tool_name, tool_input >>,
                                cr.config, o, f, TRUE, FALSE)
               ELSE Finish("PermissionRequest", << tool_name, tool_input >>, cr.config,
                           Untouched, f, TRUE, FALSE)

\* An accumulation with `=` in place of `+=`: the tokens of the last scan only.
AccumulateAssigns(tokens, usage) == usage

\* `tokens[key] += incremental["usage"].get(key, 0)` for the four keys
Accumulate(tokens, usage) ==
    [input          |-> tokens.input + usage.input,
     output         |-> tokens.output + usage.output,
     cache_read     |-> tokens.cache_read + usage.cache_read,
     cache_creation |-> tokens.cache_creation + usage.cache_creation]

\* A Stop branch that assigns the timeline instead of appending to it.
StopStateAssignsTimeline(state, config, lines, utc) ==
    LET response == get_latest_response(lines, config.response_max_length) IN
    [state EXCEPT
       !.timeline = IF IsSome(response)
                    THEN << ResponseEntry(format_timestamp(LocalNow(utc)),
                                          Val(response)) >>
                    ELSE @]

\* The state after the Stop branch has taken in the transcript.
StopState(state, config, lines, utc) ==
    LET response == get_latest_response(lines, config.response_max_length)
        incremental == get_incremental_usage(lines, state.last_processed_timestamp)
    IN [state EXCEPT
          !.keys = @ \cup {"tokens"}
                     \cup (IF IsSome(response) THEN {"timeline"} ELSE {})
                     \cup (IF incremental.context_tokens # 0 THEN {"context_tokens"} ELSE {})
                     \cup (IF IsSome(incremental.model) THEN {"model"} ELSE {})
                     \cup (IF IsSome(incremental.last_timestamp)
                           THEN {"last_processed_timestamp"} ELSE {}),
          !.timeline = IF IsSome(response)
                       THEN Append(@, ResponseEntry(format_timestamp(LocalNow(utc)),
                                                    Val(response)))
                       ELSE @,
          !.tokens = Accumulate(@, incremental.usage),
          !.context_tokens = IF incremental.context_tokens # 0
                             THEN incremental.context_tokens ELSE @,
          !.model = IF IsSome(incremental.model) THEN incremental.model ELSE @,
          !.last_processed_timestamp =
              IF IsSome(incremental.last_timestamp) THEN incremental.last_timestamp
              ELSE @]

\* counted after a Stop that persisted the usage of the selected lines.
CountSelected(transcript_path, selected) ==
    [counted EXCEPT ![transcript_path] =
        [i \in 1..Len(@) |-> IF i \in selected THEN @[i] + 1 ELSE @[i]]]

\* hook_event == "Stop"
Stop(f) ==
    LET cr == get_config(config_file)
        state == read_state(state_file)
        lines == TranscriptOf(state)
        state1 == StopState(state, cr.config, lines, now)
        selected == get_incremental_usage(lines, state.last_processed_timestamp).selected
    IN IF Early(cr) THEN EarlyExit("Stop", cr, f)
       ELSE IF Truthy(state) /\ HasStartTime(state)
            THEN /\ Len(state1.timeline) <= MaxTimeline
                 /\ \A i \in selected : counted[state.transcript_path][i] < MaxCount
                 /\ \E o \in StateThenSnapshot(state1, cr.config, f) :
                      /\ Finish("Stop", << >>, cr.config, o, f, TRUE, FALSE)
                      /\ counted' = IF o.file = JsonFile(state1)
                                    THEN CountSelected(state.transcript_path, selected)
                                    ELSE counted
                      /\ UNCHANGED watermark0
            ELSE /\ Finish("Stop", << >>, cr.config, Untouched, f, TRUE, FALSE)
                 /\ UNCHANGED << counted, watermark0 >>

\* The flag without its negation at the call: rescans exactly when tokens are cached.
has_valid_tokens_negated(tokens) == ~(tokens.input > 0 \/ tokens.output > 0)

\* has_valid_tokens of the SessionEnd branch
has_valid_tokens(tokens) == tokens.input > 0 \/ tokens.output > 0

\* A SessionEnd that resets the session's data but keeps its path and timeline.
SessionEndKeepsTimeline(state) ==
    [EmptyState EXCEPT !.keys = {"transcript_path", "timeline"},
                       !.transcript_path = state.transcript_path,
                       !.timeline = state.timeline]

\* A SessionEnd that leaves a marker of the ended session behind.
SessionEndLeavesMarker(state) ==
    [EmptyState EXCEPT !.keys = {"session_id"}, !.session_id = "ended"]

\* The state SessionEnd persists, whatever the state was: `write_state({})`.
SessionEndState(state) == EmptyState

\* hook_event == "SessionEnd"
SessionEnd(f) ==
    LET cr == get_config(config_file)
        state == read_state(state_file)
        snaps == IF Truthy(state) /\ HasStartTime(state)
                 THEN write_log_snapshot(state_file, dir_exists, "none", state, cr.config,
                                         ~has_valid_tokens(state.tokens), f)
                 ELSE { Untouched }
    IN IF Early(cr) THEN EarlyExit("SessionEnd", cr, f)
       ELSE \E snap \in snaps :
            IF snap.raised
            THEN /\ Finish("SessionEnd", << >>, cr.config, snap, f, TRUE, FALSE)
                 /\ UNCHANGED << counted, watermark0 >>
            ELSE \E w \in write_state(snap.file, snap.dir, SessionEndState(state), f) :
                   /\ Finish("SessionEnd", << >>, cr.config,
                             [snap EXCEPT !.file = w.file, !.dir = w.dir,
                                          !.raised = w.raised, !.swrite = w.swrite],
                             f, TRUE, FALSE)
                   /\ IF w.file = JsonFile(SessionEndState(state))
                      THEN counted' = NoCounts /\ watermark0' = None
                      ELSE UNCHANGED << counted, watermark0 >>

\* ------------------------------------------------------------ environment
\* The clock advances.
Tick ==
    /\ now < MaxTime
    /\ now' = now + 1
    /\ UNCHANGED << config_file, state_file, dir_exists, schema_file, logs,
                    transcripts, perf_log, errors_log, last, counted, watermark0,
                    session_log, invocations >>

\* The host engine appends a line, stamped with the current time, to a transcript.
AppendLine(transcript_path, shape, max_lines) ==
    /\ TotalLines < max_lines
    /\ transcripts' = [transcripts EXCEPT ![transcript_path] =
                          Append(@, [shape EXCEPT !.ts = now])]
    /\ counted' = [counted EXCEPT ![transcript_path] = Append(@, 0)]
    /\ UNCHANGED << now, config_file, state_file, dir_exists, schema_file, logs,
                    perf_log, errors_log, last, watermark0, session_log,
                    invocations >>

\* The user replaces the configuration file between two invocations.
EditConfig(file) ==
    /\ config_file # file
    /\ config_file' = file
    /\ UNCHANGED << now, state_file, dir_exists, schema_file, logs, transcripts,
                    perf_log, errors_log, last, counted, watermark0, session_log,
                    invocations >>

(***************************************************************************)
(* One lifecycle event, handled under the file-system fault f, with its     *)
(* payload drawn from the domain d: transcript paths, tool calls and tool   *)
(* responses.                                                               *)
(***************************************************************************)
SessionEvent(f, d) ==
    \/ \E sid \in SessionIds, p \in d.paths, t \in Triggers : SessionStart(sid, p, t, f)
    \/ \E pr \in Prompts, p \in d.paths : UserPromptSubmit(pr, p, f)
    \/ Stop(f)
    \/ SessionEnd(f)

ToolEvent(f, d) ==
    \/ \E c \in d.calls : PreToolUse(c[1], c[2], f)
    \/ \E c \in d.calls, r \in d.responses : PostToolUse(c[1], c[2], r, f)
    \/ \E c \in d.calls : PermissionRequest(c[1], c[2], f)
    \/ SubagentStop(f)
    \/ UnknownEvent(f)

Event(f, d) == SessionEvent(f, d) \/ ToolEvent(f, d)

\* The host engine's transcript, of at most d.lines lines.
Transcript(d) == \E p \in d.paths, shape \in d.shapes : AppendLine(p, shape, d.lines)

Domain(paths, calls, responses, shapes, lines) ==
    [paths |-> paths, calls |-> calls, responses |-> responses, shapes |-> shapes,
     lines |-> lines]

InitWith(config_files) ==
    /\ now = 0
    /\ config_file \in config_files
    /\ state_file = AbsentFile
    /\ dir_exists = FALSE
    /\ schema_file = FALSE
    /\ logs = NoLogs
    /\ transcripts = [p \in Paths |-> << >>]
    /\ perf_log = 0
    /\ errors_log = 0
    /\ last = Last("none", << >>, FALSE, 0, FALSE, "none", "none", None)
    /\ counted = [p \in Paths |-> << >>]
    /\ watermark0 = None
    /\ session_log = None
    /\ invocations = << >>

\* The hook with a working file system and a configuration of the documented
\* types: every lifecycle event, one transcript line with text and usage.
DomainAll ==
    Domain({ PathA }, { << "Edit", EditA >>, << "Task", TaskX >>, << "Bash", BashLs >> },
           { OkResponse }, { TextLine }, MaxLinesAll)

Init == InitWith({ AbsentConfig, DisabledConfig })

Next == Event("none", DomainAll) \/ Transcript(DomainAll) \/ Tick

Spec == Init /\ [][Next]_vars

\* The session and transcript side of the hook: session start and end, prompts
\* and Stop events over transcripts of every shape of line.
DomainTokens == Domain({ PathA }, {}, {}, LineShapes, MaxLines)

InitTokens == InitWith({ AbsentConfig })

NextTokens == SessionEvent("none", DomainTokens) \/ Transcript(DomainTokens) \/ Tick

SpecTokens == InitTokens /\ [][NextTokens]_vars

\* The hook with any configuration file, file-system faults and unreadable input.
DomainFault == Domain({ PathA }, { << "Edit", EditA >> }, { OkResponse }, {}, 0)

InitFault ==
    InitWith({ AbsentConfig, DisabledConfig } \cup (BrokenConfigFiles \ { InvalidConfig }))

NextFault ==
    \E f \in Faults :
        /\ f = "mkdir" => ~dir_exists
        /\ Event(f, DomainFault) \/ BadInput(f)

SpecFault == InitFault /\ [][NextFault]_vars

\* The hook with a working file system and a configuration file that is
\* missing or malformed.
InitConfig == InitWith({ AbsentConfig } \cup MalformedConfigFiles)

NextConfig == Event("none", DomainFault) \/ Tick

SpecConfig == InitConfig /\ [][NextConfig]_vars

\* Sessions on two transcripts: session start and end, prompts, Stop events and
\* failing Edit calls, so that a state has something to lose when it is replaced.
DomainSessions ==
    Domain(Paths, { << "Edit", EditA >> }, { ErrorResponse }, { TextLine }, MaxLinesAll)

InitSessions == InitWith({ AbsentConfig })

NextSessions ==
    \/ SessionEvent("none", DomainSessions)
    \/ \E c \in DomainSessions.calls, r \in DomainSessions.responses :
         PostToolUse(c[1], c[2], r, "none")
    \/ Transcript(DomainSessions)
    \/ Tick

SpecSessions == InitSessions /\ [][NextSessions]_vars

\* The hook over the file-modifying tools and the shell tool, with tool
\* responses that succeed and that fail, under the default watch list and
\* under a watch list with the shell tool.
DomainTools ==
    Domain({ PathA },
           { << "Edit", EditA >>, << "MultiEdit", EditB >>, << "Write", WriteB >>,
             << "Bash", BashLs >> },
           { OkResponse, ErrorResponse, ExitOneResponse }, {}, 0)

InitTools == InitWith({ AbsentConfig, WatchBashConfig })

NextTools == Event("none", DomainTools)

SpecTools == InitTools /\ [][NextTools]_vars

\* The two transcript scans over transcripts of up to MaxScanLines lines, each
\* an assistant message with usage, unparsable text or JSON that is no object.
DomainScan ==
    Domain({ PathA }, {}, {}, { TextLine, GarbageLine, NonObjectLine }, MaxScanLines)

InitScan == InitWith({ AbsentConfig })

NextScan == SessionEvent("none", DomainScan) \/ Transcript(DomainScan) \/ Tick

SpecScan == InitScan /\ [][NextScan]_vars

\* The tail-read of the Stop branch over assistant messages of one and of two
\* text blocks, without and with a response_max_length.
DomainResponse ==
    Domain({ PathA }, {}, {}, { HelloLine, WordLine, UserLine }, MaxLines)

InitResponse == InitWith({ AbsentConfig, ResponseMax5Config })

NextResponse ==
    SessionEvent("none", DomainResponse) \/ Transcript(DomainResponse) \/ Tick

SpecResponse == InitResponse /\ [][NextResponse]_vars

\* The cost estimate over transcripts whose usage sums lie below, above and
\* exactly at the middle between two multiples of 1e-4 USD.
DomainCost ==
    Domain({ PathA }, {}, {},
           { UsageLine(1, 0, 0, 0), UsageLine(4, 3, 1, 1), UsageLine(2, 7, 5, 10) },
           MaxLines)

InitCost == InitWith({ AbsentConfig })

NextCost == SessionEvent("none", DomainCost) \/ Transcript(DomainCost) \/ Tick

SpecCost == InitCost /\ [][NextCost]_vars

\* The snapshot under a context_limit that is zero, negative or the default.
DomainLimit == Domain({ PathA }, {}, {}, { TextLine }, MaxLinesAll)

InitLimit == InitWith({ AbsentConfig, ZeroLimitConfig, NegativeLimitConfig })

NextLimit == SessionEvent("none", DomainLimit) \/ Transcript(DomainLimit) \/ Tick

SpecLimit == InitLimit /\ [][NextLimit]_vars

\* Every event under a configuration the user switches between enabled and
\* disabled, so that a disabled invocation finds the files of a session.
DomainDisabled ==
    Domain({ PathA }, { << "Edit", EditA >>, << "Task", TaskX >> }, { OkResponse }, {}, 0)

InitDisabled == InitWith({ AbsentConfig })

NextDisabled ==
    \/ Event("none", DomainDisabled)
    \/ \E file \in { AbsentConfig, DisabledConfig, DisabledPerfConfig } : EditConfig(file)

SpecDisabled == InitDisabled /\ [][NextDisabled]_vars

\* Two sessions of one project, invoked one event at a time and interleaved.
\* Session s1 on transcript PathA edits src/a.py, its calls fail, and its
\* assistant messages have output tokens; session s2 on transcript PathB
\* writes src/b.py, its calls succeed, and its messages have input tokens only.
SessionOne ==
    \/ \E t \in Triggers : SessionStart("s1", PathA, t, "none")
    \/ UserPromptSubmit("p", PathA, "none")
    \/ PostToolUse("Edit", EditA, ErrorResponse, "none")
    \/ AppendLine(PathA, TextLine, MaxLinesAll)

SessionTwo ==
    \/ \E t \in Triggers : SessionStart("s2", PathB, t, "none")
    \/ UserPromptSubmit("p", PathB, "none")
    \/ PostToolUse("Write", WriteB, OkResponse, "none")
    \/ AppendLine(PathB, UsageLine(1, 0, 0, 0), MaxLinesAll)

InitInterleaved == InitWith({ AbsentConfig })

NextInterleaved == SessionOne \/ SessionTwo \/ Stop("none") \/ SessionEnd("none") \/ Tick

SpecInterleaved == InitInterleaved /\ [][NextInterleaved]_vars

\* Tool calls in flight together: the host delivers the PreToolUse of a call
\* before the PostToolUse of another; two of the calls are Edits of different
\* files and one is a Write.
DomainOverlap ==
    Domain({ PathA },
           { << "Edit", EditA >>, << "Edit", EditC >>, << "Write", WriteB >> },
           { OkResponse }, {}, 0)

InitOverlap == InitWith({ AbsentConfig })

NextOverlap == Event("none", DomainOverlap)

SpecOverlap == InitOverlap /\ [][NextOverlap]_vars

\* Delegations to subagents of two types, each delivered by the host in the
\* order PreToolUse(Task), SubagentStop, PostToolUse(Task), one after another.
DomainDelegation ==
    Domain({ PathA }, { << "Task", TaskX >>, << "Task", TaskY >> }, { OkResponse }, {}, 0)

\* A delegation is in flight: the marker of its PreToolUse is pending.
DelegationInFlight ==
    LET state == read_state(state_file)
    IN Truthy(state) /\ IsSome(state.pending_tool)
       /\ Val(state.pending_tool).tool = "Task"

InitDelegation == InitWith({ AbsentConfig })

\* The host starts a delegation when none is in flight.
DelegationStarts(d) ==
    \E c \in d.calls : ~DelegationInFlight /\ PreToolUse(c[1], c[2], "none")

\* The subagent of the delegation in flight finishes.
SubagentFinishes ==
    DelegationInFlight /\ last.event = "PreToolUse" /\ SubagentStop("none")

\* The Task call of the delegation in flight returns, with the tool_input of
\* its PreToolUse.
DelegationReturns(d) ==
    \E c \in d.calls, r \in d.responses :
       /\ DelegationInFlight
       /\ last.event = "SubagentStop"
       /\ Val(read_state(state_file).pending_tool).input =
            summarize_tool_input(c[1], c[2])
       /\ PostToolUse(c[1], c[2], r, "none")

NextDelegation ==
    \/ \E sid \in SessionIds, p \in DomainDelegation.paths, t \in Triggers :
          SessionStart(sid, p, t, "none")
    \/ DelegationStarts(DomainDelegation)
    \/ SubagentFinishes
    \/ DelegationReturns(DomainDelegation)
    \/ Tick

SpecDelegation == InitDelegation /\ [][NextDelegation]_vars

\* Invocations of PostToolUse that may overlap: each reads the state, and
\* writes it in a later step, with the reads and writes of the others in
\* between; the session starts before them.
DomainRace ==
    Domain({ PathA }, { << "Edit", EditA >>, << "Edit", EditC >>, << "Write", WriteB >> },
           { OkResponse, ErrorResponse }, {}, 0)

InitRace == InitWith({ AbsentConfig })

NextRace ==
    \/ \E sid \in SessionIds, p \in DomainRace.paths, t \in Triggers :
          invocations = << >> /\ SessionStart(sid, p, t, "none")
    \/ \E c \in DomainRace.calls, r \in DomainRace.responses :
          PostToolUseReads(c[1], c[2], r)
    \/ \E i \in 1..Len(invocations) : PostToolUseWrites(i)
    \/ Tick

SpecRace == InitRace /\ [][NextRace]_vars

\* ------------------------------------------------------------ properties
\* The persisted state the next invocation will read.
state == read_state(state_file)

\* C1: every invocation of the hook exits with status 0, whatever the event,
\* the input on stdin, the configuration file or the failure it meets.
C1_ExitStatusZero == last.exit = 0

\* The lines of the state's transcript a Stop run now would add to the tokens.
NextSelected ==
    IF Truthy(state) /\ HasStartTime(state)
    THEN get_incremental_usage(TranscriptOf(state),
                               state.last_processed_timestamp).selected
    ELSE {}

\* C2: over the Stop events of a session, the usage of a transcript entry is
\* added to the state's tokens at most once, and an entry whose timestamp is
\* the stored watermark is not among those the next Stop adds.
C2_CountedAtMostOnce ==
    /\ \A p \in Paths : \A i \in 1..Len(counted[p]) : counted[p][i] <= 1
    /\ \A i \in NextSelected :
          TranscriptOf(state)[i].ts # Val(state.last_processed_timestamp)

\* Every entry with a usage object whose timestamp is after the watermark the
\* state was created with, and not after the stored one, has been counted.
NoEntryMissed ==
    (Truthy(state) /\ IsSome(watermark0) /\ IsSome(state.last_processed_timestamp))
    => \A i \in 1..Len(TranscriptOf(state)) :
         LET e == TranscriptOf(state)[i] IN
         (e.kind = "entry" /\ IsSome(e.usage) /\ e.ts > Val(watermark0)
             /\ e.ts <= Val(state.last_processed_timestamp))
         => counted[state.transcript_path][i] >= 1

\* A step of the hook handling the given event.
Handles(event) == last'.event = event /\ UNCHANGED << now, transcripts >>

\* C3: when a Stop event has been handled, every entry with a usage object whose
\* timestamp is after the watermark the state was created with and not after
\* the stored watermark has had its usage added to the state's tokens.
C3_NoEntryMissed == [][Handles("Stop") => NoEntryMissed']_vars

\* The events of the tool watch list under the default configuration.
WatchListed(payload) == payload # << >> /\ payload[1] \in Defaults.tools_to_log

\* C4: with a session state present, a watch-listed PreToolUse records a pending
\* marker (its time, tool and input summary) and leaves the timeline alone; a
\* watch-listed PostToolUse appends exactly one entry of type tool, with the ts
\* and input of the pending marker when the marker names the same tool, and
\* with its own time and input summary when there is no marker or the marker
\* names another tool.
C4_ToolRoundTrip ==
    [][/\ (Handles("PreToolUse") /\ Truthy(state) /\ WatchListed(last'.payload))
          => /\ state'.timeline = state.timeline
             /\ state'.pending_tool =
                  Some(PendingTool(LocalNow(now), last'.payload[1],
                         summarize_tool_input(last'.payload[1], last'.payload[2])))
       /\ (Handles("PostToolUse") /\ Truthy(state) /\ WatchListed(last'.payload))
          => LET tool == last'.payload[1]
                 pending == state.pending_tool
                 e == state'.timeline[Len(state'.timeline)]
             IN /\ state'.timeline = Append(state.timeline, e)
                /\ e.type = "tool" /\ e.tool = tool
                /\ IF IsSome(pending) /\ Val(pending).tool = tool
                   THEN /\ e.ts = format_timestamp(Val(pending).ts)
                        /\ e.input = Val(pending).input
                   ELSE /\ e.ts = format_timestamp(LocalNow(now))
                        /\ e.input = summarize_tool_input(tool, last'.payload[2])
      ]_vars

\* A PostToolUse merged with the marker of a PreToolUse of an earlier minute.
C4_Witness ==
    /\ last.event = "PostToolUse"
    /\ Truthy(state)
    /\ state.timeline # << >>
    /\ LET e == state.timeline[Len(state.timeline)] IN
         e.type = "tool" /\ e.ts < format_timestamp(LocalNow(now))

\* C5: when SessionEnd has been handled the persisted state is the empty
\* mapping, and a SessionStart with trigger "startup" that follows it creates
\* a state whose timeline is empty.
C5_EndedSessionNotCarriedOver ==
    [][/\ Handles("SessionEnd") => state' = EmptyState
       /\ (last.event = "SessionEnd" /\ Handles("SessionStart")
              /\ last'.payload # << >> /\ last'.payload[1] = "startup")
          => Truthy(state') /\ state'.timeline = << >>
      ]_vars

\* A startup SessionStart found no state although a session on its transcript
\* had written a snapshot before: that session was ended; the new timeline is empty.
C5_Witness ==
    /\ last.event = "SessionStart"
    /\ last.payload # << >> /\ last.payload[1] = "startup"
    /\ ~last.had_state
    /\ \E n \in DOMAIN logs : logs[n].transcript_path = last.payload[2]
    /\ Truthy(state) /\ state.timeline = << >>

\* C6: when SessionEnd has been handled and its write of the state did not
\* fail, the state file holds the empty mapping, whatever became of the final
\* snapshot (written, skipped, failed or raised).
C6_ClearedWhateverTheSnapshot ==
    (last.event = "SessionEnd" /\ last.swrite # "failed") => state = EmptyState

\* C7: SessionEnd with a state that has a start_time writes the final snapshot
\* from a full rescan of the transcript from the session start when the
\* accumulated tokens are zero, and from the cached tokens, without a rescan,
\* when they are not.
C7_RescanOnlyWithoutTokens ==
    [][(Handles("SessionEnd") /\ Truthy(state) /\ HasStartTime(state))
       => /\ IsSome(last'.written)
          /\ IF state.tokens = ZeroTokens
             THEN /\ last'.mode = "full"
                  /\ Val(last'.written).entry.tokens =
                       get_session_info(TranscriptOf(state), state.start_time).tokens
             ELSE /\ last'.mode = "cached"
                  /\ Val(last'.written).entry.tokens = state.tokens
      ]_vars

\* A SessionEnd without an earlier Stop whose rescan found the session's usage.
C7_Witness ==
    /\ last.event = "SessionEnd"
    /\ last.mode = "full"
    /\ IsSome(last.written)
    /\ Val(last.written).entry.tokens.input > 0

\* C8: every snapshot of one session, from the event that creates its state to
\* its SessionEnd, is written to the file the session wrote first.
C8_OneFilePerSession ==
    (IsSome(last.written) /\ IsSome(session_log))
    => Val(last.written).name = Val(session_log)

\* C9: a snapshot written under the name of an existing file belongs to the
\* session (start time and transcript path) the file belongs to: a state
\* created with another start time leaves the earlier file as it is.
C9_ResumeLeavesEarlierFile ==
    [][(UNCHANGED << now, transcripts >> /\ IsSome(last'.written))
       => LET w == Val(last'.written) IN
          w.name \in DOMAIN logs => logs[w.name] = SessionOf(w.entry)
      ]_vars

\* C10: every event handled on an existing state that it does not re-initialise
\* (UserPromptSubmit of the state's transcript, PreToolUse, PostToolUse,
\* SubagentStop, PermissionRequest, Stop) leaves a state whose timeline has the
\* timeline before the event as a prefix.
C10_TimelineAppendOnly ==
    [][(/\ UNCHANGED << now, transcripts >>
        /\ Truthy(state)
        /\ \/ last'.event \in {"PreToolUse", "PostToolUse", "SubagentStop",
                                "PermissionRequest", "Stop"}
           \/ /\ last'.event = "UserPromptSubmit"
              /\ last'.payload # << >>
              /\ SameSession(state, last'.payload[1]))
       => Truthy(state') /\ IsPrefix(state.timeline, state'.timeline)
      ]_vars

\* A Stop appended the response after the prompt already in the timeline.
C10_Witness ==
    /\ last.event = "Stop"
    /\ Truthy(state)
    /\ Len(state.timeline) = 2
    /\ state.timeline[1].type = "prompt"
    /\ state.timeline[2].type = "response"

\* C11: in every reachable state the ts values of the timeline entries are
\* non-decreasing from the first entry to the last.
C11_TimelineChronological ==
    Truthy(state)
    => \A i \in 1..(Len(state.timeline) - 1) :
         state.timeline[i].ts <= state.timeline[i + 1].ts

\* C12: with a state present, pending_subagent is set when the delegation tool
\* Task starts (its PreToolUse), and a SubagentStop that finds it set clears it
\* and appends one subagent entry made from it to the timeline.
C12_PendingSubagentLifecycle ==
    [][/\ (Handles("PreToolUse") /\ Truthy(state) /\ last'.payload # << >>
              /\ last'.payload[1] = "Task")
          => IsSome(state'.pending_subagent)
       /\ (Handles("SubagentStop") /\ Truthy(state) /\ IsSome(state.pending_subagent))
          => /\ state'.pending_subagent = None
             /\ Len(state'.timeline) = Len(state.timeline) + 1
             /\ IsPrefix(state.timeline, state'.timeline)
             /\ LET e == state'.timeline[Len(state'.timeline)] IN
                  /\ e.type = "subagent"
                  /\ e.subagent_type = Val(state.pending_subagent).type
      ]_vars

\* C13: SessionStart persists a fresh state (zero tokens, zero error_count,
\* empty files_modified, no pending marker, the watermark at the current
\* instant) for its transcript; the timeline of that state is the persisted
\* timeline when the trigger is "startup" and the existing state has the
\* event's transcript path, and is empty in every other case.
C13_SessionStartFreshState ==
    [][(Handles("SessionStart") /\ last'.payload # << >>)
       => LET trigger == last'.payload[1]
              transcript_path == last'.payload[2]
          IN /\ Truthy(state')
             /\ state'.transcript_path = transcript_path
             /\ state'.tokens = ZeroTokens
             /\ state'.context_tokens = 0
             /\ state'.error_count = 0
             /\ state'.files_modified = << >>
             /\ state'.pending_tool = None
             /\ state'.pending_subagent = None
             /\ state'.last_processed_timestamp = Some(now)
             /\ state'.timeline =
                  IF /\ trigger = "startup"
                     /\ Has(state, "transcript_path")
                     /\ state.transcript_path = transcript_path
                  THEN state.timeline ELSE << >>
      ]_vars

\* A startup SessionStart took over the timeline of a state that had counted
\* an error, and reset the count.
C13_Witness ==
    /\ last.event = "SessionStart"
    /\ last.payload # << >> /\ last.payload[1] = "startup"
    /\ last.had_state
    /\ Truthy(state)
    /\ state.error_count = 0
    /\ \E i \in 1..Len(state.timeline) : state.timeline[i].type = "tool"

\* C14: a UserPromptSubmit that finds no state of its transcript persists the
\* state SessionStart creates for the payload (session_id, transcript_path and
\* project_root included) with a timeline of exactly one prompt entry, and
\* writes a snapshot; one that finds the state of its transcript appends one
\* prompt entry to the timeline and changes no other field.
C14_PromptCreatesOrAppends ==
    [][(Handles("UserPromptSubmit") /\ last'.payload # << >>)
       => \E prompt \in Prompts :
            LET transcript_path == last'.payload[1]
                entry == PromptEntry(format_timestamp(LocalNow(now)), prompt)
            IN IF SameSession(state, transcript_path)
               THEN state' = [state EXCEPT !.timeline = Append(@, entry)]
               ELSE /\ \E session_id \in SessionIds :
                         state' = SessionStartState(session_id, transcript_path, Cwd,
                                                    << entry >>, now)
                    /\ IsSome(last'.written)
      ]_vars

\* C15: every event handled on an existing state, other than the events that
\* create a state (SessionStart, UserPromptSubmit of another transcript) and
\* SessionEnd, leaves each of the four accumulated token counts at least as
\* large as it was.
C15_TokensNonDecreasing ==
    [][(/\ UNCHANGED << now, transcripts >>
        /\ Truthy(state)
        /\ last'.event \notin {"none", "SessionStart", "SessionEnd"}
        /\ last'.event = "UserPromptSubmit"
             => (last'.payload # << >> /\ SameSession(state, last'.payload[1])))
       => /\ Truthy(state')
          /\ state'.tokens.input >= state.tokens.input
          /\ state'.tokens.output >= state.tokens.output
          /\ state'.tokens.cache_read >= state.tokens.cache_read
          /\ state'.tokens.cache_creation >= state.tokens.cache_creation
      ]_vars

\* A second Stop added the usage of a later entry to the tokens of the first.
C15_Witness ==
    /\ last.event = "Stop"
    /\ Truthy(state)
    /\ state.tokens.input = 4
    /\ state.tokens.cache_creation = 2
    /\ Len(state.timeline) = 2

\* C16: files_modified never holds the same file name twice, whatever the
\* Edit, MultiEdit and Write calls of the session, several calls on one file
\* included.
C16_FilesModifiedNoDuplicates ==
    Truthy(state) =>
        \A i, j \in 1..Len(state.files_modified) :
            state.files_modified[i] = state.files_modified[j] => i = j

\* Two calls on the same file name have been handled, and it is listed once.
C16_Witness ==
    /\ last.event = "PostToolUse"
    /\ Truthy(state)
    /\ state.files_modified = << "a.py" >>
    /\ Len(SelectSeq(state.timeline,
                     LAMBDA e : e.type = "tool" /\ e.input = << "a.py" >>)) = 2

\* C17: within a session error_count goes up by exactly 1 at each PostToolUse
\* whose response carries an error field or, for the shell tool, a non-zero
\* exit code, and every other event leaves it as it is.
C17_ErrorCountCountsFailures ==
    [][LET Failed == \E c \in DomainTools.calls, r \in DomainTools.responses :
                         PostToolUse(c[1], c[2], r, "none") /\ is_error(c[1], r)
       IN (/\ Handles(last'.event)
           /\ Truthy(state)
           /\ last'.event \notin {"none", "SessionStart", "SessionEnd"}
           /\ last'.event = "UserPromptSubmit"
                => (last'.payload # << >> /\ SameSession(state, last'.payload[1])))
          => /\ Truthy(state')
             /\ state'.error_count = state.error_count + (IF Failed THEN 1 ELSE 0)
      ]_vars

\* The transcript without its line i.
WithoutLine(lines, i) == SubSeq(lines, 1, i - 1) \o SubSeq(lines, i + 1, Len(lines))

\* C18: a transcript line that is not a parsable JSON object is skipped by the
\* incremental scan and by the full scan: the token totals, context snapshot,
\* model and watermark they return are those returned for the transcript with
\* that line removed, whatever the watermark or the session start.
C18_MalformedLineSkipped ==
    \A p \in DomainScan.paths : \A i \in 1..Len(transcripts[p]) :
        transcripts[p][i].kind \in {"garbage", "nonobject"} =>
            LET lines == transcripts[p]
                without == WithoutLine(lines, i)
            IN /\ \A w \in { None } \cup { Some(t) : t \in 0..MaxTime } :
                     LET a == get_incremental_usage(lines, w)
                         b == get_incremental_usage(without, w)
                     IN /\ a.usage = b.usage
                        /\ a.context_tokens = b.context_tokens
                        /\ a.model = b.model
                        /\ a.last_timestamp = b.last_timestamp
               /\ \A t \in 0..MaxTime :
                     get_session_info(lines, LocalNow(t))
                       = get_session_info(without, LocalNow(t))

\* The most recent assistant message of a transcript that has one.
IsAssistant(line) == line.kind = "entry" /\ line.role = "assistant"
HasAssistant(lines) == \E i \in 1..Len(lines) : IsAssistant(lines[i])
LastAssistant(lines) ==
    lines[CHOOSE i \in 1..Len(lines) :
            IsAssistant(lines[i]) /\ \A j \in (i + 1)..Len(lines) : ~IsAssistant(lines[j])]

\* The texts of the text-typed content blocks of a message, in order.
TextsOf(line) ==
    LET blocks == SelectSeq(line.content, LAMBDA c : c.type = "text")
    IN [k \in 1..Len(blocks) |-> blocks[k].text]

RECURSIVE Concat(_)
Concat(texts) == IF texts = << >> THEN << >> ELSE Head(texts) \o Concat(Tail(texts))

\* The response entry a Stop step has appended to the timeline.
Appended == state'.timeline[Len(state'.timeline)]
StopAppends ==
    /\ Truthy(state')
    /\ Len(state'.timeline) = Len(state.timeline) + 1
    /\ Appended.type = "response"

\* C19: a Stop records as the response the texts of all text blocks of the
\* most recent assistant message, concatenated in order and trimmed: for the
\* blocks "Hello " and "world" exactly "Hello world".
C19_TailReadConcatenates ==
    [][(/\ Handles("Stop")
        /\ Truthy(state) /\ HasStartTime(state)
        /\ get_config(config_file).config.response_max_length = 0
        /\ HasAssistant(TranscriptOf(state)))
       => /\ StopAppends
          /\ Appended.content = Strip(Concat(TextsOf(LastAssistant(TranscriptOf(state)))))
      ]_vars

C22_NonPositiveLimit ==
    [][get_config(config_file).config.context_limit \in { Some(0), Some(-1) }
       => /\ IsSome(last'.written)
               => /\ Val(last'.written).entry.context_used
                       = [literal |-> TRUE, tenths |-> 0]
                  /\ Val(last'.written).entry.context_remaining
                       = [literal |-> TRUE, tenths |-> 1000]
          /\ (Handles("Stop") /\ Truthy(state) /\ HasStartTime(state))
               => IsSome(last'.written) /\ ~last'.raised /\ last'.exit = 0
      ]_vars

\* A snapshot with context_tokens 3 has been written under context_limit 0.
C22_Witness ==
    /\ IsSome(last.written)
    /\ Val(last.written).entry.context_limit = 0
    /\ Val(last.written).entry.context_tokens = 3
    /\ Val(last.written).entry.context_remaining = [literal |-> TRUE, tenths |-> 1000]

\* C23: under a configuration with enabled = false every event, SessionStart
\* and SessionEnd included, leaves the state file, the snapshot files, the
\* schema file and the performance log as they are and exits with status 0.
C23_DisabledChangesNothing ==
    [][(~get_config(config_file).config.enabled /\ config_file' = config_file)
       => /\ UNCHANGED << state_file, logs, schema_file, perf_log >>
          /\ last'.exit = 0
      ]_vars

\* A SessionEnd has been handled with logging disabled: the state and the
\* snapshots of the session are still there.
C23_Witness ==
    /\ ~get_config(config_file).config.enabled
    /\ get_config(config_file).config.performance_tracking
    /\ last.event = "SessionEnd"
    /\ Truthy(state)
    /\ logs # NoLogs
    /\ perf_log = 0

\* C24: write_state never passes an I/O failure on to its caller: when the
\* log directory cannot be created or the state file cannot be written, a
\* UserPromptSubmit or Stop still goes on to its snapshot step and nothing
\* is raised by the failed write.
C24_WriteStateNeverRaises ==
    [][(/\ Handles(last'.event)
        /\ last'.event \in {"UserPromptSubmit", "Stop"}
        /\ last'.swrite = "failed")
       => last'.mode = "cached"
      ]_vars

\* C25: read_state returns the state last persisted by write_state, and the
\* empty mapping, without raising, when the state file is absent or corrupt
\* (not decodable, or not valid JSON): the invocation that finds such a file
\* sees no state and raises nothing.
C25_ReadStateTolerant ==
    [][(/\ Handles(last'.event)
        /\ last'.event \notin {"none", "BadInput"}
        /\ config_file = AbsentConfig
        /\ dir_exists)
       => /\ state_file.kind = "json" => last'.had_state = Truthy(state_file.data)
          /\ state_file.kind # "json" => ~last'.had_state /\ ~last'.raised
          /\ (last'.event = "SessionStart" /\ last'.swrite = "ok")
               => /\ read_state(state_file').transcript_path = last'.payload[2]
                  /\ read_state(state_file').session_id \in SessionIds
      ]_vars

\* C26: a Stop appends a response entry only for assistant text that is new
\* since the previous Stop of the session: when the transcript holds a single
\* assistant message and the timeline already has the response entry an
\* earlier Stop made of it, a further Stop appends nothing.
C26_ResponseOnlyWhenNew ==
    [][(/\ Handles("Stop")
        /\ Truthy(state) /\ HasStartTime(state)
        /\ Cardinality({ i \in 1..Len(TranscriptOf(state)) :
                            IsAssistant(TranscriptOf(state)[i]) }) = 1
        /\ \E k \in 1..Len(state.timeline) : state.timeline[k].type = "response")
       => state'.timeline = state.timeline
      ]_vars

\* C27: for every transcript and every cutoff at which no entry lies, taken
\* as the watermark of the incremental scan and as the session start of the
\* full scan, get_session_info returns the four token totals and the context
\* tokens that get_incremental_usage returns.
C27_ScansAgree ==
    \A p \in DomainTokens.paths : \A w \in 0..MaxTime :
        LET lines == transcripts[p] IN
        (\A i \in 1..Len(lines) : lines[i].kind = "entry" => lines[i].ts # w)
        => LET incremental == get_incremental_usage(lines, Some(w))
               full == get_session_info(lines, LocalNow(w))
           IN /\ full.tokens = incremental.usage
              /\ full.context_tokens = incremental.context_tokens

\* What a session record (a state or a snapshot entry) of the session on
\* PathA, or of the one on PathB, may hold if it holds nothing of the other.
OwnRecord(r) ==
    /\ r.transcript_path = PathA
         => /\ "b.py" \notin Range(r.files_modified)
            /\ \A k \in 1..Len(r.timeline) :
                  r.timeline[k].type = "tool" => r.timeline[k].tool = "Edit"
    /\ r.transcript_path = PathB
         => /\ "a.py" \notin Range(r.files_modified)
            /\ \A k \in 1..Len(r.timeline) :
                  r.timeline[k].type = "tool" => r.timeline[k].tool = "Write"
            /\ r.error_count = 0
            /\ r.tokens.output = 0

\* C28: with the events of two sessions on different transcripts interleaved,
\* every timeline entry, files_modified name, error count and token count in
\* a session's state and in its snapshot comes from that session's own events
\* and transcript.
C28_SessionsIsolated ==
    /\ Truthy(state) => OwnRecord(state)
    /\ IsSome(last.written) => OwnRecord(Val(last.written).entry)

\* C29: with tool calls overlapping, whatever PreToolUse events came before it
\* and in whatever order, a watch-listed PostToolUse appends exactly one tool
\* entry and the entry's input is the summary of that PostToolUse's own
\* tool_input.
C29_OverlappingCallsKeepInput ==
    [][(Handles("PostToolUse") /\ Truthy(state) /\ WatchListed(last'.payload))
         => /\ Len(state'.timeline) = Len(state.timeline) + 1
            /\ state'.timeline[Len(state'.timeline)].type = "tool"
            /\ state'.timeline[Len(state'.timeline)].input =
                 summarize_tool_input(last'.payload[1], last'.payload[2])
      ]_vars

\* C30: in a delegation delivered as PreToolUse(Task), SubagentStop,
\* PostToolUse(Task), the SubagentStop appends exactly one subagent entry with
\* the subagent_type of the delegation in flight, and the PostToolUse, the
\* delegation's last event, appends no other subagent entry and leaves
\* pending_subagent null.
C30_DelegationOrder ==
    [][/\ (Handles("SubagentStop") /\ Truthy(state) /\ DelegationInFlight)
          => /\ Len(state'.timeline) = Len(state.timeline) + 1
             /\ IsPrefix(state.timeline, state'.timeline)
             /\ state'.timeline[Len(state'.timeline)].type = "subagent"
             /\ state'.timeline[Len(state'.timeline)].subagent_type =
                  Val(state.pending_tool).input[1]
       /\ (Handles("PostToolUse") /\ Truthy(state) /\ DelegationInFlight)
          => /\ Len(state'.timeline) = Len(state.timeline) + 1
             /\ state'.timeline[Len(state'.timeline)].type = "tool"
             /\ state'.pending_subagent = None
      ]_vars

\* A step handling a PreToolUse or PostToolUse of a watch-listed tool.
WatchListedToolStep ==
    (Handles("PreToolUse") \/ Handles("PostToolUse")) /\ WatchListed(last'.payload)

\* C31: within a session a watch-listed PreToolUse leaves pending_tool set and
\* naming its tool, replacing any earlier marker; a watch-listed PostToolUse,
\* matching the marker or not, leaves it null; and no other step within the
\* session changes it, so that it is set exactly when the most recent
\* watch-listed tool event was a PreToolUse.
C31_PendingToolLifecycle ==
    [][/\ (Handles("PreToolUse") /\ Truthy(state) /\ WatchListed(last'.payload))
          => /\ IsSome(state'.pending_tool)
             /\ Val(state'.pending_tool).tool = last'.payload[1]
       /\ (Handles("PostToolUse") /\ Truthy(state) /\ WatchListed(last'.payload))
          => state'.pending_tool = None
       /\ (Truthy(state) /\ Truthy(state') /\ ~WatchListedToolStep
              /\ ~Handles("SessionStart"))
          => state'.pending_tool = state.pending_tool
      ]_vars

\* A watch-listed PreToolUse of Task handled with a state present: the marker
\* names Task and no tool entry has been appended.
C31_Witness ==
    /\ last.event = "PreToolUse"
    /\ last.had_state
    /\ last.payload[1] = "Task"
    /\ IsSome(state.pending_tool)
    /\ Val(state.pending_tool).tool = "Task"
    /\ state.timeline = << >>

\* The watch list of the configuration in force.
tools_to_log == get_config(config_file).config.tools_to_log

\* C32: a PreToolUse or PostToolUse of a tool outside tools_to_log leaves the
\* persisted state and the snapshot files as they were and writes no
\* snapshot; a watch-listed PreToolUse changes pending_tool alone and writes
\* no snapshot; and every timeline entry of type tool names a tool of
\* tools_to_log.
C32_WatchListFilters ==
    [][/\ ((Handles("PreToolUse") \/ Handles("PostToolUse"))
              /\ last'.payload # << >> /\ last'.payload[1] \notin tools_to_log)
          => /\ state_file' = state_file
             /\ logs' = logs
             /\ last'.written = None
       /\ (Handles("PreToolUse") /\ Truthy(state) /\ last'.payload # << >>
              /\ last'.payload[1] \in tools_to_log)
          => /\ state' = [state EXCEPT !.pending_tool = state'.pending_tool,
                                        !.keys = @ \cup {"pending_tool"}]
             /\ logs' = logs
             /\ last'.written = None
       /\ Truthy(state')
          => \A k \in 1..Len(state'.timeline) :
                state'.timeline[k].type = "tool"
                => state'.timeline[k].tool \in tools_to_log
      ]_vars

\* With Bash added to the watch list, a PreToolUse of Bash has set the marker
\* of a session whose timeline already holds a tool entry.
C32_Witness ==
    /\ last.event = "PreToolUse"
    /\ last.had_state
    /\ last.payload[1] = "Bash"
    /\ IsSome(state.pending_tool)
    /\ Val(state.pending_tool).tool = "Bash"
    /\ \E k \in 1..Len(state.timeline) : state.timeline[k].type = "tool"

\* C33: a SubagentStop that finds a pending_subagent marker appends exactly
\* one subagent entry with the marker's type and success true, sets
\* pending_subagent to null, and writes the state and a snapshot of it; a
\* SubagentStop without a marker, or with the state empty, leaves the state
\* file and the snapshot files as they were.
C33_SubagentStop ==
    [][/\ (Handles("SubagentStop") /\ Truthy(state) /\ IsSome(state.pending_subagent))
          => /\ Len(state'.timeline) = Len(state.timeline) + 1
             /\ IsPrefix(state.timeline, state'.timeline)
             /\ LET e == state'.timeline[Len(state'.timeline)] IN
                  /\ e.type = "subagent"
                  /\ e.subagent_type = Val(state.pending_subagent).type
                  /\ e.success = TRUE
             /\ state'.pending_subagent = None
             /\ last'.swrite = "ok"
             /\ IsSome(last'.written)
             /\ Val(last'.written).entry.timeline = state'.timeline
       /\ (Handles("SubagentStop") /\ last'.had_state
              /\ ~(Truthy(state) /\ IsSome(state.pending_subagent)))
          => /\ state_file' = state_file
             /\ logs' = logs
             /\ last'.written = None
       /\ (Handles("SubagentStop") /\ ~Truthy(state))
          => /\ state_file' = state_file
             /\ logs' = logs
             /\ last'.written = None
      ]_vars

\* A SubagentStop has turned the marker of an explore delegation into the
\* last timeline entry and written the snapshot.
C33_Witness ==
    /\ last.event = "SubagentStop"
    /\ last.had_state
    /\ IsSome(last.written)
    /\ state.pending_subagent = None
    /\ state.timeline # << >>
    /\ state.timeline[Len(state.timeline)].type = "subagent"
    /\ state.timeline[Len(state.timeline)].subagent_type = "explore"

\* The lines of a transcript that are entries with a usage object and a
\* timestamp after the watermark.
NewUsageEntries(lines, last_timestamp) ==
    { i \in 1..Len(lines) :
        /\ lines[i].kind = "entry"
        /\ IsSome(lines[i].usage)
        /\ ~AlreadyProcessed(lines[i].ts, last_timestamp) }

\* C34: a Stop whose transcript holds entries with usage after the watermark
\* leaves context_tokens equal to input_tokens + cache_read_input_tokens of
\* the last of them in transcript order, whatever it was before; a Stop with
\* no such entry leaves context_tokens as it was.
C34_ContextTokensOverwritten ==
    [][(Handles("Stop") /\ Truthy(state) /\ HasStartTime(state))
         => LET lines == TranscriptOf(state)
                new == NewUsageEntries(lines, state.last_processed_timestamp)
            IN IF new = {}
               THEN state'.context_tokens = state.context_tokens
               ELSE LET k == CHOOSE i \in new : \A j \in new : j <= i
                        usage == Val(lines[k].usage)
                    IN state'.context_tokens =
                         usage.input_tokens + usage.cache_read_input_tokens
      ]_vars

\* C35: an invocation that writes the state it read while no other invocation
\* has written in between appends its entry to the persisted timeline, so
\* that nothing is lost without an overlap; with two invocations that both
\* read the state before either writes, the state persisted last holds the
\* later writer's entry alone (the witness).
C35_NoLossWithoutOverlap ==
    [][\A i \in 1..Len(invocations) :
          (/\ Len(invocations') = Len(invocations)
           /\ invocations'[i].exited /\ ~invocations[i].exited
           /\ Truthy(invocations[i].state)
           /\ invocations[i].state = state)
          => /\ Len(state'.timeline) = Len(state.timeline) + 1
             /\ IsPrefix(state.timeline, state'.timeline)
             /\ LET e == state'.timeline[Len(state'.timeline)] IN
                  /\ e.type = "tool"
                  /\ e.tool = invocations[i].tool_name
                  /\ e.input = summarize_tool_input(invocations[i].tool_name,
                                                    invocations[i].tool_input)
             /\ state'.error_count =
                  state.error_count
                  + (IF is_error(invocations[i].tool_name, invocations[i].tool_response)
                     THEN 1 ELSE 0)
      ]_vars

\* Two invocations, an Edit of a.py with a failing response and an Edit of
\* c.py, read the same state and have both exited without an error: the
\* persisted timeline has one entry more than the state they read, the entry
\* of c.py, and the failure of the other is not counted.
C35_Witness ==
    /\ Len(invocations) = 2
    /\ invocations[1].exited /\ invocations[2].exited
    /\ Truthy(invocations[1].state)
    /\ invocations[1].state = invocations[2].state
    /\ invocations[1].tool_input = EditA /\ invocations[1].tool_response = ErrorResponse
    /\ invocations[2].tool_input = EditC /\ invocations[2].tool_response = OkResponse
    /\ Truthy(state)
    /\ Len(state.timeline) = Len(invocations[1].state.timeline) + 1
    /\ state.timeline[Len(state.timeline)].input = << "c.py" >>
    /\ state.files_modified = << "c.py" >>
    /\ state.error_count = 0
    /\ ~last.raised /\ last.exit = 0

\* What a snapshot and the state it is made from have in common.
SharedFields(r) ==
    << r.timeline, r.tokens, r.context_tokens, r.files_modified, r.error_count,
       r.start_time, r.transcript_path >>

\* A step of a SessionStart that begins another session.  The session goes
\* on through the SessionStart that follows the UserPromptSubmit which
\* created the state: a startup on the state's transcript, the state having
\* no session_id yet.
BeginsSession ==
    /\ Handles("SessionStart")
    /\ ~(/\ last'.payload # << >>
         /\ last'.payload[1] = "startup"
         /\ Has(state, "transcript_path")
         /\ state.transcript_path = last'.payload[2]
         /\ ~Has(state, "session_id"))

\* C36: the snapshot written by a UserPromptSubmit, PostToolUse, SubagentStop,
\* PermissionRequest or Stop carries the timeline, tokens, context_tokens,
\* files_modified, error_count, start_time and transcript_path of the state
\* the same invocation persisted; and while the session goes on, a step that
\* writes no snapshot leaves these fields of the persisted state as they
\* were, so that the snapshot stays equal to the state.
C36_SnapshotMatchesState ==
    [][/\ (/\ \/ Handles("UserPromptSubmit") \/ Handles("PostToolUse")
               \/ Handles("SubagentStop") \/ Handles("PermissionRequest")
               \/ Handles("Stop")
            /\ IsSome(last'.written))
          => /\ Truthy(state')
             /\ SharedFields(Val(last'.written).entry) = SharedFields(state')
       /\ (/\ Truthy(state) /\ HasStartTime(state)
            /\ Truthy(state')
            /\ ~BeginsSession
            /\ ~(UNCHANGED << now, transcripts >> /\ IsSome(last'.written)))
          => SharedFields(state') = SharedFields(state)
      ]_vars

\* C37: while the persisted state is the empty mapping, PreToolUse,
\* PostToolUse, SubagentStop, PermissionRequest, Stop and SessionEnd leave it
\* empty and create or modify no snapshot file; the state becomes non-empty
\* only by a SessionStart or a UserPromptSubmit.
C37_EmptyStateStaysEmpty ==
    [][/\ (/\ ~Truthy(state)
            /\ \/ Handles("PreToolUse") \/ Handles("PostToolUse")
               \/ Handles("SubagentStop") \/ Handles("PermissionRequest")
               \/ Handles("Stop") \/ Handles("SessionEnd"))
          => /\ ~Truthy(state')
             /\ logs' = logs
             /\ last'.written = None
       /\ (~Truthy(state) /\ Truthy(state'))
          => (Handles("SessionStart") \/ Handles("UserPromptSubmit"))
      ]_vars

\* A Stop handled after the SessionEnd of a session that had written its
\* snapshot: the state is still the empty mapping and nothing was written.
C37_Witness ==
    /\ last.event = "Stop"
    /\ ~last.had_state
    /\ state_file = JsonFile(EmptyState)
    /\ logs # NoLogs
    /\ last.written = None
    /\ get_config(config_file).config.enabled

\* C38: with the configuration file missing or malformed (not valid JSON, not
\* a JSON object, or holding a cost_alert that is not an object) every
\* lifecycle event is handled as with the default configuration: nothing is
\* raised and nothing goes to the error log, SessionStart persists the fresh
\* state of its payload, and UserPromptSubmit appends its prompt to the state
\* of its transcript or creates the state of a prompt-started session and
\* writes a snapshot.
MissingOrMalformed(file) ==
    \/ file.kind # "json"
    \/ "cost_alert" \in file.keys /\ ~file.cost_alert_ok

C38_MalformedConfigAsDefaults ==
    [][(/\ MissingOrMalformed(config_file)
        /\ Handles(last'.event)
        /\ last'.event \notin {"none", "BadInput"})
       => /\ ~last'.raised
          /\ errors_log' = errors_log
          /\ Handles("SessionStart")
               => /\ last'.payload # << >>
                  /\ \E session_id \in SessionIds :
                       state' = SessionStartState(
                                    session_id, last'.payload[2], Cwd,
                                    IF /\ last'.payload[1] = "startup"
                                       /\ Has(state, "transcript_path")
                                       /\ state.transcript_path = last'.payload[2]
                                    THEN state.timeline ELSE << >>,
                                    now)
          /\ Handles("UserPromptSubmit")
               => /\ last'.payload # << >>
                  /\ \E prompt \in Prompts :
                       LET transcript_path == last'.payload[1]
                           entry == PromptEntry(format_timestamp(LocalNow(now)), prompt)
                       IN IF SameSession(state, transcript_path)
                          THEN state' = [state EXCEPT !.timeline = Append(@, entry)]
                          ELSE /\ state' = PromptState(transcript_path, Cwd, << entry >>, now)
                               /\ IsSome(last'.written)
      ]_vars
====
